---- MODULE Spec2Model ----
(***************************************************************************)
(* Indexing and resolution subsystem of better-docs (package indexing):    *)
(* the spec loader, the content-addressed shard builder and the operation  *)
(* resolver.                                                               *)
(*                                                                         *)
(* Go strings are modelled as sequences of one-character strings, so that  *)
(* the library calls the code makes on them (Split, Trim, TrimPrefix,      *)
(* url.Parse, ...) are computed character by character.                    *)
(***************************************************************************)
EXTENDS Integers, Sequences, FiniteSets, TLC

----------------------------------------------------------------------------
(* package strings, as used by the code                                    *)

\* strings.HasPrefix
HasPrefix(s, p) == Len(s) >= Len(p) /\ SubSeq(s, 1, Len(p)) = p

\* strings.HasSuffix
HasSuffix(s, p) == Len(s) >= Len(p) /\ SubSeq(s, Len(s) - Len(p) + 1, Len(s)) = p

\* strings.TrimPrefix
TrimPrefix(s, p) == IF HasPrefix(s, p) THEN SubSeq(s, Len(p) + 1, Len(s)) ELSE s

\* strings.TrimLeft with a one-character cutset
RECURSIVE TrimLeft(_, _)
TrimLeft(s, c) == IF s # <<>> /\ Head(s) = c THEN TrimLeft(Tail(s), c) ELSE s

\* strings.TrimRight with a one-character cutset
RECURSIVE TrimRight(_, _)
TrimRight(s, c) ==
    IF s # <<>> /\ s[Len(s)] = c THEN TrimRight(SubSeq(s, 1, Len(s) - 1), c) ELSE s

\* strings.Trim with a one-character cutset
Trim(s, c) == TrimLeft(TrimRight(s, c), c)

\* strings.IndexByte, 1-based; 0 when c does not occur
IndexByte(s, c) ==
    IF \E i \in 1..Len(s) : s[i] = c
    THEN CHOOSE i \in 1..Len(s) : s[i] = c /\ \A j \in 1..(i - 1) : s[j] # c
    ELSE 0

\* strings.LastIndexByte, 1-based; 0 when c does not occur
LastIndexByte(s, c) ==
    IF \E i \in 1..Len(s) : s[i] = c
    THEN CHOOSE i \in 1..Len(s) : s[i] = c /\ \A j \in (i + 1)..Len(s) : s[j] # c
    ELSE 0

\* strings.Split with a one-character separator: Split("", "/") is [""]
RECURSIVE Split(_, _)
Split(s, c) ==
    LET i == IndexByte(s, c)
    IN  IF i = 0 THEN <<s>>
        ELSE <<SubSeq(s, 1, i - 1)>> \o Split(SubSeq(s, i + 1, Len(s)), c)

\* The upper-case and lower-case letters of the modelled alphabet
UpperChar(c) ==
    CASE c = "g" -> "G" [] c = "e" -> "E" [] c = "t" -> "T"
      [] c = "p" -> "P" [] c = "o" -> "O" [] c = "s" -> "S"
      [] OTHER -> c

LowerChar(c) ==
    CASE c = "G" -> "g" [] c = "E" -> "e" [] c = "T" -> "t"
      [] c = "P" -> "p" [] c = "O" -> "o" [] c = "S" -> "s"
      [] OTHER -> c

\* strings.ToUpper
ToUpper(s) == [i \in 1..Len(s) |-> UpperChar(s[i])]

\* strings.ToLower (the lower-case filter of the search engine's analyzer)
ToLower(s) == [i \in 1..Len(s) |-> LowerChar(s[i])]

Digits == {"7", "8"}
Letters == {"g", "e", "t", "p", "o", "s", "G", "E", "T", "P", "O", "S",
            "k", "u", "d", "n", "x", "y", "v"}

----------------------------------------------------------------------------
(* package net/url, as used by the code                                    *)

IsHex(c) == c \in Digits \/ c \in {"d", "e"}

\* unescape fails on a '%' that is not followed by two hex digits
BadEscape(s) ==
    \E i \in 1..Len(s) :
        s[i] = "%" /\ ~(i + 2 <= Len(s) /\ IsHex(s[i + 1]) /\ IsHex(s[i + 2]))

\* getScheme: <<ok, scheme, rest>>
RECURSIVE getSchemeFrom(_, _)
getSchemeFrom(s, i) ==
    IF i > Len(s) THEN <<TRUE, <<>>, s>>
    ELSE IF s[i] \in Letters THEN getSchemeFrom(s, i + 1)
    ELSE IF s[i] \in Digits THEN
        IF i = 1 THEN <<TRUE, <<>>, s>> ELSE getSchemeFrom(s, i + 1)
    ELSE IF s[i] = ":" THEN
        IF i = 1 THEN <<FALSE, <<>>, <<>>>>
        ELSE <<TRUE, SubSeq(s, 1, i - 1), SubSeq(s, i + 1, Len(s))>>
    ELSE <<TRUE, <<>>, s>>

getScheme(s) == getSchemeFrom(s, 1)

\* validOptionalPort: "" or ":" followed by digits only
validOptionalPort(port) ==
    port = <<>> \/ (port[1] = ":" /\ \A i \in 2..Len(port) : port[i] \in Digits)

URLError == [ok |-> FALSE, Host |-> <<>>, Path |-> <<>>, RawQuery |-> <<>>]

\* url.Parse, for URLs without fragment, user info, IPv6 literal or valid
\* percent-escape: the fields Host, Path and RawQuery of the result.
ParseURL(raw) ==
    LET sch  == getScheme(raw)
        rest == sch[3]
        q    == IndexByte(rest, "?")
        noq  == IF q = 0 THEN rest ELSE SubSeq(rest, 1, q - 1)
        qry  == IF q = 0 THEN <<>> ELSE SubSeq(rest, q + 1, Len(rest))
        auth == HasPrefix(noq, <<"/", "/">>)
        rem  == SubSeq(noq, 3, Len(noq))
        sl   == IndexByte(rem, "/")
        host == IF ~auth THEN <<>>
                ELSE IF sl = 0 THEN rem ELSE SubSeq(rem, 1, sl - 1)
        path == IF ~auth THEN noq
                ELSE IF sl = 0 THEN <<>> ELSE SubSeq(rem, sl, Len(rem))
        col  == LastIndexByte(host, ":")
    IN  IF ~sch[1] THEN URLError
        ELSE IF ~HasPrefix(noq, <<"/">>) /\ sch[2] # <<>> THEN
            \* an opaque URL: scheme:opaque
            [ok |-> TRUE, Host |-> <<>>, Path |-> <<>>, RawQuery |-> qry]
        ELSE IF ~HasPrefix(noq, <<"/">>)
                /\ IndexByte(Split(noq, "/")[1], ":") # 0 THEN URLError
        ELSE IF col # 0 /\ ~validOptionalPort(SubSeq(host, col, Len(host)))
            THEN URLError
        ELSE IF BadEscape(host) \/ BadEscape(path) THEN URLError
        ELSE [ok |-> TRUE, Host |-> host, Path |-> path, RawQuery |-> qry]

\* (*URL).Hostname: Host without a valid port
Hostname(u) ==
    LET col == LastIndexByte(u.Host, ":")
    IN  IF col # 0 /\ validOptionalPort(SubSeq(u.Host, col, Len(u.Host)))
        THEN SubSeq(u.Host, 1, col - 1)
        ELSE u.Host

----------------------------------------------------------------------------
(* Template matching and path parameters                                   *)

IsParamSegment(seg) == HasPrefix(seg, <<"{">>) /\ HasSuffix(seg, <<"}">>)

\* matchTemplate that lets the path have more segments than the template
matchTemplate_Prefix(tmpl, path) ==
    LET ts == Split(Trim(tmpl, "/"), "/")
        ps == Split(Trim(path, "/"), "/")
    IN  /\ Len(ts) <= Len(ps)
        /\ \A i \in 1..Len(ts) : IsParamSegment(ts[i]) \/ ts[i] = ps[i]

matchTemplate(tmpl, path) ==
    LET ts == Split(Trim(tmpl, "/"), "/")
        ps == Split(Trim(path, "/"), "/")
    IN  /\ Len(ts) = Len(ps)
        /\ \A i \in 1..Len(ts) : IsParamSegment(ts[i]) \/ ts[i] = ps[i]

\* The Go map built by the loop over tSeg: a later segment of the same name
\* overwrites an earlier one.
RECURSIVE paramsUpTo(_, _, _)
paramsUpTo(tSeg, pSeg, n) ==
    IF n = 0 THEN <<>>
    ELSE LET before == paramsUpTo(tSeg, pSeg, n - 1)
             ts     == tSeg[n]
         IN  IF IsParamSegment(ts)
             THEN (SubSeq(ts, 2, Len(ts) - 1) :> pSeg[n]) @@ before
             ELSE before

\* extractPathParams that pairs the segments it has when the counts differ
extractPathParams_NoCount(basePath, tmpl, fullPath) ==
    LET clean == TrimPrefix(TrimPrefix(fullPath, basePath), <<"/">>)
        tSeg  == Split(Trim(tmpl, "/"), "/")
        pSeg  == Split(Trim(clean, "/"), "/")
    IN  paramsUpTo(tSeg, pSeg,
                   IF Len(tSeg) < Len(pSeg) THEN Len(tSeg) ELSE Len(pSeg))

extractPathParams(basePath, tmpl, fullPath) ==
    LET clean == TrimPrefix(TrimPrefix(fullPath, basePath), <<"/">>)
        tSeg  == Split(Trim(tmpl, "/"), "/")
        pSeg  == Split(Trim(clean, "/"), "/")
    IN  IF Len(tSeg) # Len(pSeg) THEN <<>>
        ELSE paramsUpTo(tSeg, pSeg, Len(tSeg))

----------------------------------------------------------------------------
(* The configuration and the spec files it names                           *)

\* The configuration file: an ordered sequence of SpecConfig (name, file)
Cfgs == << [Name |-> <<"n", "7">>, File |-> "f1"],
           [Name |-> <<"n", "8">>, File |-> "f2"] >>

SpecNames == {Cfgs[i].Name : i \in 1..Len(Cfgs)}
FileNames == {Cfgs[i].File : i \in 1..Len(Cfgs)}

GET  == <<"G", "E", "T">>
POST == <<"P", "O", "S", "T">>

OpEntry(method, template, operationId) ==
    [Method |-> method, Template |-> template, OperationID |-> operationId,
     Description |-> <<>>, Tags |-> {}]

\* Contents a spec file can have.  bytes names the byte string; form says how
\* far the loader's decoding gets; url is servers[0].url; ops are the
\* operations the document declares under paths.
FileA1 == [bytes |-> "A1", form |-> "ok",
           url |-> <<"s", ":", "/", "/", "x", "/", "p">>,
           ops |-> {OpEntry(GET, <<"/", "k", "/", "{", "d", "}">>, <<"g", "k">>)}]
FileA2 == [bytes |-> "A2", form |-> "ok",
           url |-> <<"s", ":", "/", "/", "x", "/", "p", "/">>,
           ops |-> {OpEntry(GET, <<"/", "k", "/", "{", "d", "}">>, <<"g", "k">>),
                    OpEntry(POST, <<"/", "k">>, <<"p", "k">>)}]
FileA3 == [bytes |-> "A3", form |-> "ok",
           url |-> <<"s", ":", "/", "/", "x", ":", "8", "/", "p">>,
           ops |-> {OpEntry(GET, <<"/", "k">>, <<"o", "k">>)}]
FileB1 == [bytes |-> "B1", form |-> "ok",
           url |-> <<"s", ":", "/", "/", "y", "/">>,
           ops |-> {OpEntry(GET, <<"/", "{", "d", "}">>, <<"g", "d">>),
                    OpEntry(GET, <<"/", "u", "/", "{", "d", "}">>, <<"g", "u">>)}]
FileE1 == [bytes |-> "E1", form |-> "notobject", url |-> <<>>, ops |-> {}]
FileE2 == [bytes |-> "E2", form |-> "noservers", url |-> <<>>, ops |-> {}]
FileE3 == [bytes |-> "E3", form |-> "emptyservers", url |-> <<>>, ops |-> {}]
FileE4 == [bytes |-> "E4", form |-> "badserver0", url |-> <<>>, ops |-> {}]
FileE5 == [bytes |-> "E5", form |-> "nourl", url |-> <<>>, ops |-> {}]
FileE6 == [bytes |-> "E6", form |-> "ok",
           url |-> <<"s", ":", "/", "/", "x", "/", "%">>, ops |-> {}]

\* os.ReadFile fails on a file in this state
Unreadable == [bytes |-> "", form |-> "unreadable", url |-> <<>>, ops |-> {}]

GoodContents == {FileA1, FileA2, FileA3, FileB1}
BadContents  == {FileE1, FileE2, FileE3, FileE4, FileE5, FileE6, Unreadable}
Contents     == GoodContents \cup BadContents

\* sha256 is modelled as an injective function of the bytes
computeSHA(content) == <<"sha256", content.bytes>>

----------------------------------------------------------------------------
(* Spec Loader                                                             *)

firstServerInfo(raw) ==
    LET u    == ParseURL(raw.url)
        trim == TrimRight(u.Path, "/")
    IN  IF raw.form \in {"noservers", "emptyservers"}
            THEN [err |-> "errNoServers", host |-> <<>>, basePath |-> <<>>]
        ELSE IF raw.form = "badserver0"
            THEN [err |-> "invalid servers[0]", host |-> <<>>, basePath |-> <<>>]
        ELSE IF raw.form = "nourl"
            THEN [err |-> "servers[0].url not string", host |-> <<>>, basePath |-> <<>>]
        ELSE IF ~u.ok
            THEN [err |-> "url.Parse", host |-> <<>>, basePath |-> <<>>]
        ELSE [err |-> "nil", host |-> u.Host,
              basePath |-> IF trim = <<"/">> THEN <<>> ELSE trim]

\* A nil Registry together with an error
LoadError(e) == [err |-> e, isNil |-> TRUE, registry |-> <<>>]

\* loadFrom with the early returns replaced by continue: a spec that cannot
\* be loaded is skipped and the others are registered.
RECURSIVE loadFrom_Skip(_, _, _)
loadFrom_Skip(fs, i, registry) ==
    IF i > Len(Cfgs) THEN [err |-> "nil", isNil |-> FALSE, registry |-> registry]
    ELSE LET cfg  == Cfgs[i]
             raw  == fs[cfg.File]
             info == firstServerInfo(raw)
         IN  IF raw.form \in {"unreadable", "notobject"} \/ info.err # "nil"
             THEN loadFrom_Skip(fs, i + 1, registry)
             ELSE loadFrom_Skip(fs, i + 1,
                     (info.host :> [SpecName |-> cfg.Name, File |-> cfg.File,
                                    Host |-> info.host, BasePath |-> info.basePath,
                                    ContentHash |-> computeSHA(raw)]) @@ registry)

\* The loop over cfgs of LoadConfigAndIndex, from entry i on, with the
\* registry built so far.
RECURSIVE loadWith(_, _, _, _)
loadWith(cfgs, fs, i, registry) ==
    IF i > Len(cfgs) THEN [err |-> "nil", isNil |-> FALSE, registry |-> registry]
    ELSE LET cfg  == cfgs[i]
             raw  == fs[cfg.File]
             hash == computeSHA(raw)
             info == firstServerInfo(raw)
         IN  IF raw.form = "unreadable" THEN LoadError("reading spec")
             ELSE IF raw.form = "notobject" THEN LoadError("parsing spec")
             ELSE IF info.err # "nil" THEN LoadError(info.err)
             ELSE loadWith(cfgs, fs, i + 1,
                     (info.host :> [SpecName |-> cfg.Name, File |-> cfg.File,
                                    Host |-> info.host, BasePath |-> info.basePath,
                                    ContentHash |-> hash]) @@ registry)

\* The loop on the configuration file of the catalogue
loadFrom(fs, i, registry) == loadWith(Cfgs, fs, i, registry)

LoadConfigAndIndex(cfgReadable, fs) ==
    IF ~cfgReadable THEN LoadError("reading config")
    ELSE loadFrom(fs, 1, <<>>)

----------------------------------------------------------------------------
(* The search engine, as the code uses it                                  *)

\* English stop words that can be spelled with the letters of the model
StopWords == { <<"t", "o">>, <<"s", "o">>, <<"d", "o">>, <<"u", "p">>,
               <<"n", "o">>, <<"o", "n">>, <<"n", "o", "t">>,
               <<"t", "o", "o">>, <<"o", "u", "t">>, <<"y", "o", "u">> }

\* The standard analyzer: maximal runs of letters and digits, lower-cased
RECURSIVE tokensFrom(_, _, _)
tokensFrom(s, i, cur) ==
    LET done == IF cur = <<>> THEN {} ELSE {cur}
    IN  IF i > Len(s) THEN done
        ELSE IF s[i] \in Letters \cup Digits
            THEN tokensFrom(s, i + 1, Append(cur, LowerChar(s[i])))
        ELSE done \cup tokensFrom(s, i + 1, <<>>)

Tokens(s) == tokensFrom(s, 1, <<>>) \ StopWords

\* NewIndexMapping: SpecName and Tags are keyword fields (one term, as is),
\* every other field goes through the standard analyzer.
DocTerms(doc) ==
    Tokens(doc.OperationID) \cup Tokens(doc.Method) \cup Tokens(doc.Template)
        \cup Tokens(doc.Description) \cup {doc.SpecName} \cup doc.Tags

\* bleve.NewQueryStringQuery for a query without blank, quote, colon or
\* wildcard: a string wrapped in slashes is a regular expression on a term
\* (here one without metacharacters), any other string is a match query, the
\* OR of its analysed tokens.  The lone "/" fails to parse.
QueryParseError(q) == q = <<"/">>

QueryMatches(q, doc) ==
    IF q = <<>> THEN FALSE
    ELSE IF HasPrefix(q, <<"/">>) /\ HasSuffix(q, <<"/">>)
        THEN SubSeq(q, 2, Len(q) - 1) \in DocTerms(doc)
    ELSE Tokens(q) \cap DocTerms(doc) # {}

\* disjunction: an OR of exact terms on a keyword field
disjunction(fieldTerms, vals) == fieldTerms \cap vals # {}

\* SearchHits where one filter that passes is enough
SearchHits_AnyFilter(docs, specNames, tagFilters, queryStr) ==
    {d \in docs : /\ QueryMatches(queryStr, d)
                  /\ \/ specNames = {} /\ tagFilters = {}
                     \/ disjunction({d.SpecName}, specNames)
                     \/ disjunction(d.Tags, tagFilters)}

\* The documents the conjunction query of SearchBleve selects
SearchHits(docs, specNames, tagFilters, queryStr) ==
    {d \in docs : /\ QueryMatches(queryStr, d)
                  /\ specNames # {} => disjunction({d.SpecName}, specNames)
                  /\ tagFilters # {} => disjunction(d.Tags, tagFilters)}

\* The orders in which the engine can rank a set of hits
Rankings(hits) ==
    {r \in [1..Cardinality(hits) -> hits] :
        \A i, j \in DOMAIN r : r[i] = r[j] => i = j}

\* One hit materialised as a SearchResult by splitting its id
Materialise(h) ==
    LET parts == Split(h.id, "|")
    IN  IF Len(parts) = 4
        THEN [SpecName |-> parts[1], OperationID |-> parts[4],
              Method |-> parts[2], Template |-> parts[3],
              Description |-> <<>>, Tags |-> h.Tags]
        ELSE [SpecName |-> <<>>, OperationID |-> <<>>, Method |-> <<>>,
              Template |-> <<>>, Description |-> <<>>, Tags |-> h.Tags]

Min(a, b) == IF a < b THEN a ELSE b

\* SearchBleve: the outcomes it can have, one per rank order of the hits
SearchBleve(docs, specNames, tagFilters, queryStr, limit, offset) ==
    IF QueryParseError(queryStr)
    THEN {[err |-> "parse error", results |-> <<>>, total |-> 0]}
    ELSE LET hits == SearchHits(docs, specNames, tagFilters, queryStr)
         IN  {[err |-> "nil",
               results |-> [i \in 1..(Min(Len(r), offset + limit) - Min(Len(r), offset))
                               |-> Materialise(r[offset + i])],
               total |-> Cardinality(hits)] : r \in Rankings(hits)}

----------------------------------------------------------------------------
(* Operation Resolver                                                      *)

FindLimit == 100

Unresolved(e) ==
    [specName |-> <<>>, operationId |-> <<>>, pathParams |-> <<>>,
     paramsNil |-> TRUE, err |-> e]

\* IsCandidate without the comparison of the method
IsCandidate_NoMethod(r, meta, wantMethod, full, rel) ==
    /\ r.SpecName = meta.SpecName
    /\ (matchTemplate(r.Template, full) \/ matchTemplate(r.Template, rel))

\* The filter of the loop over the results of FindOperation
IsCandidate(r, meta, wantMethod, full, rel) ==
    /\ r.SpecName = meta.SpecName
    /\ r.Method = wantMethod
    /\ (matchTemplate(r.Template, full) \/ matchTemplate(r.Template, rel))

\* The loop over results: the first candidate, or no-operation
RECURSIVE firstCandidate(_, _, _, _, _, _)
firstCandidate(results, i, meta, wantMethod, full, rel) ==
    IF i > Len(results) THEN Unresolved("no operation found")
    ELSE IF IsCandidate(results[i], meta, wantMethod, full, rel)
        THEN [specName |-> results[i].SpecName,
              operationId |-> results[i].OperationID,
              pathParams |-> extractPathParams(meta.BasePath, results[i].Template, full),
              paramsNil |-> FALSE, err |-> "nil"]
    ELSE firstCandidate(results, i + 1, meta, wantMethod, full, rel)

\* RelPath that leaves the base path in place
RelPath_Keep(meta, full) ==
    IF HasPrefix(full, <<"/">>) THEN full ELSE <<"/">> \o full

\* rel: the URL path with the base path stripped, leading slash re-added
RelPath(meta, full) ==
    LET rel == TrimPrefix(full, TrimRight(meta.BasePath, "/"))
    IN  IF HasPrefix(rel, <<"/">>) THEN rel ELSE <<"/">> \o rel

\* FindOperation: the outcomes it can have, one per rank order of the hits
FindOperation(docs, reg, method, rawURL) ==
    LET u    == ParseURL(rawURL)
        host == Hostname(u)
    IN  IF ~u.ok THEN {Unresolved("invalid URL")}
        ELSE IF host \notin DOMAIN reg THEN {Unresolved("no spec for host")}
        ELSE LET meta == reg[host]
                 full == u.Path
                 rel  == RelPath(meta, full)
                 wantMethod == ToUpper(method)
             IN  {IF s.err # "nil" THEN Unresolved("search error")
                  ELSE firstCandidate(s.results, 1, meta, wantMethod, full, rel) :
                     s \in SearchBleve(docs, {}, {}, rel, FindLimit, 0)}

----------------------------------------------------------------------------
(* Shard contents                                                          *)

\* The document indexSpecOnDisk writes for one OpEntry of a spec
IndexDoc(specName, e) ==
    [id |-> specName \o <<"|">> \o e.Method \o <<"|">> \o e.Template
                \o <<"|">> \o e.OperationID,
     SpecName |-> specName, OperationID |-> e.OperationID, Method |-> e.Method,
     Template |-> e.Template, Description |-> e.Description, Tags |-> e.Tags]

\* extractOpEntries on the sanitized document: its operations
extractOpEntries(content) == content.ops

----------------------------------------------------------------------------
(* State                                                                   *)

VARIABLES
    cfgReadable,  \* whether the configuration file can be read and decoded
    files,        \* the contents of each spec file
    hashFile,     \* cache directory: contents of <specName>.hash, or NoFile
    shard,        \* cache directory: <specName>.bleve, or NoDir
    phase,        \* where the process is: stopped, loaded, building, serving
    loadRes,      \* what LoadConfigAndIndex returned in this startup
    task,         \* BuildShardedIndices: the goroutine of each Registry entry
    alias,        \* BuildShardedIndices: the shards added to the alias
    firstErr,     \* BuildShardedIndices: the error it returns
    req, res,     \* the last call of FindOperation and its result
    hist,         \* history: what this startup rebuilt, and the cache
                  \* directory as the previous successful startup left it
    budget,       \* edits and injected I/O failures so far
    ctx,          \* run: whether the context of the startup in progress is
                  \* cancelled
    pl,           \* ParseLog: the input, the position in it and the locals
    web,          \* the last HTTP exchange of a handler
    mu,           \* BuildShardedIndices: the goroutine that holds the mutex
    call          \* a call of matchTemplate or extractPathParams

vars == <<cfgReadable, files, hashFile, shard, phase, loadRes, task, alias,
          firstErr, req, res, hist, budget, ctx, pl, web, mu, call>>

MaxEdits == 2
MaxFailures == 2

NoFile == <<"absent">>
NoDir  == [exists |-> FALSE, builtFrom |-> <<>>, docs |-> {}]
NoRequest == [method |-> <<>>, url |-> <<>>]
NoLoad == [err |-> "not run", isNil |-> TRUE, registry |-> <<>>]
\* clean: the last startup succeeded and no input was edited since.
\* rerun: this startup began in a clean state.  rebuilt: the shards this
\* startup removed in order to rebuild them.  hashFile, shard: the cache
\* directory as this startup found it.
NoHist == [clean |-> FALSE, rerun |-> FALSE, rebuilt |-> {},
           hashFile |-> <<>>, shard |-> <<>>]

\* ParseLog has not been called
NoParse == [log |-> <<>>, shape |-> <<>>, pos |-> 0, state |-> "None",
            Method |-> <<>>, URI |-> <<>>, Headers |-> <<>>, Params |-> <<>>,
            bodyLines |-> <<>>, Body |-> <<>>, err |-> "not run"]

\* No handler has answered yet
NoExchange == [handler |-> "none"]

\* The mutex is free
NoHolder == <<>>

\* No call of the template functions
NoCall == [fn |-> "none"]

\* The Registry of the running process
Registry == loadRes.registry

\* The documents the alias searches: those of the shards added to it
AliasDocs == UNION {shard[alias[i]].docs : i \in 1..Len(alias)}

Init ==
    /\ cfgReadable = TRUE
    /\ files = [f \in FileNames |-> IF f = "f1" THEN FileA1 ELSE FileB1]
    /\ hashFile = [n \in SpecNames |-> NoFile]
    /\ shard = [n \in SpecNames |-> NoDir]
    /\ phase = "stopped"
    /\ loadRes = NoLoad
    /\ task = <<>>
    /\ alias = <<>>
    /\ firstErr = "nil"
    /\ req = NoRequest
    /\ res = Unresolved("not run")
    /\ hist = NoHist
    /\ budget = [edits |-> 0, failures |-> 0]
    /\ ctx = FALSE
    /\ pl = NoParse
    /\ web = NoExchange
    /\ mu = NoHolder
    /\ call = NoCall

----------------------------------------------------------------------------
(* The environment: edits of the inputs between two runs of the process    *)

\* What the edits of the process life cycle write to each spec file
Versions(f) ==
    IF f = "f1" THEN {FileA1, FileA2, Unreadable} ELSE {FileB1, FileA2, Unreadable}

EditSpec(f, c) ==
    /\ phase = "stopped"
    /\ budget.edits < MaxEdits
    /\ files[f] # c
    /\ files' = [files EXCEPT ![f] = c]
    /\ budget' = [budget EXCEPT !.edits = @ + 1]
    /\ hist' = [hist EXCEPT !.clean = FALSE]
    /\ UNCHANGED <<cfgReadable, hashFile, shard, phase, loadRes, task, alias,
                   firstErr, req, res, ctx, pl, web, mu, call>>

EditConfig ==
    /\ phase = "stopped"
    /\ budget.edits < MaxEdits
    /\ cfgReadable' = ~cfgReadable
    /\ budget' = [budget EXCEPT !.edits = @ + 1]
    /\ hist' = [hist EXCEPT !.clean = FALSE]
    /\ UNCHANGED <<files, hashFile, shard, phase, loadRes, task, alias,
                   firstErr, req, res, ctx, pl, web, mu, call>>

----------------------------------------------------------------------------
(* Startup (run in main.go): LoadConfigAndIndex, then BuildShardedIndices  *)

\* run calls LoadConfigAndIndex
Load ==
    /\ phase = "stopped"
    /\ phase' = "loaded"
    /\ loadRes' = LoadConfigAndIndex(cfgReadable, files)
    /\ task' = <<>>
    /\ alias' = <<>>
    /\ firstErr' = "nil"
    /\ hist' = [clean |-> FALSE, rerun |-> hist.clean, rebuilt |-> {},
                hashFile |-> hashFile, shard |-> shard]
    /\ ctx' \in BOOLEAN
    /\ UNCHANGED <<cfgReadable, files, hashFile, shard, req, res, budget,
                   pl, web, mu, call>>

\* run returns the loader's error: the process ends
LoadFailed ==
    /\ phase = "loaded"
    /\ loadRes.err # "nil"
    /\ phase' = "stopped"
    /\ ctx' = FALSE
    /\ UNCHANGED <<cfgReadable, files, hashFile, shard, loadRes, task, alias,
                   firstErr, req, res, hist, budget, pl, web, mu, call>>

\* BuildShardedIndices starts one goroutine per Registry entry
Spawn ==
    /\ phase = "loaded"
    /\ loadRes.err = "nil"
    /\ phase' = "building"
    /\ task' = [h \in DOMAIN Registry |->
                   [pc |-> "decide", created |-> FALSE, open |-> FALSE]]
    /\ UNCHANGED <<cfgReadable, files, hashFile, shard, loadRes, alias,
                   firstErr, req, res, hist, budget, ctx, pl, web, mu,
                   call>>

----------------------------------------------------------------------------
(* BuildOrOpenSpecIndex, run by the goroutine of Registry entry h          *)

\* Every key a Registry built from the catalogue can have
Hosts == {firstServerInfo(c).host : c \in GoodContents}

NameOf(h) == Registry[h].SpecName

At(h, pc) == phase = "building" /\ h \in DOMAIN task /\ task[h].pc = pc

Goto(h, pc) == task' = [task EXCEPT ![h].pc = pc]

CanFail == budget.failures < MaxFailures
Failure == budget' = [budget EXCEPT !.failures = @ + 1]

\* NeedRebuild that always rebuilds
NeedRebuild_Always(prevHash, contentHash, dirExists) == TRUE

\* NeedRebuild that does not look at the shard directory
NeedRebuild_HashOnly(prevHash, contentHash, dirExists) == prevHash # contentHash

\* needRebuild := prevHash != spec.ContentHash || os.IsNotExist(dirErr)
NeedRebuild(prevHash, contentHash, dirExists) ==
    prevHash # contentHash \/ ~dirExists

\* prevHashBytes, _ := os.ReadFile(hashFile); prevHash := string(prevHashBytes)
PrevHash(h) == IF hashFile[NameOf(h)] = NoFile THEN <<>> ELSE hashFile[NameOf(h)]

\* Decide that stores the hash it found in the cache into the SpecIndex
Decide_Adopt(h) ==
    /\ At(h, "decide")
    /\ IF NeedRebuild(PrevHash(h), Registry[h].ContentHash,
                      shard[NameOf(h)].exists)
       THEN /\ Goto(h, "removeAll")
            /\ loadRes' = [loadRes EXCEPT !.registry[h].ContentHash = PrevHash(h)]
       ELSE /\ Goto(h, "open")
            /\ UNCHANGED loadRes
    /\ UNCHANGED <<cfgReadable, files, hashFile, shard, phase, alias,
                   firstErr, req, res, hist, budget, ctx, pl, web, mu,
                   call>>

\* The hash file is read, the directory is looked up, the decision is taken
Decide(h) ==
    /\ At(h, "decide")
    /\ IF NeedRebuild(PrevHash(h), Registry[h].ContentHash,
                      shard[NameOf(h)].exists)
       THEN Goto(h, "removeAll") ELSE Goto(h, "open")
    /\ UNCHANGED <<cfgReadable, files, hashFile, shard, phase, loadRes, alias,
                   firstErr, req, res, hist, budget, ctx, pl, web, mu,
                   call>>

\* os.RemoveAll(dir)
RemoveAll(h) ==
    /\ At(h, "removeAll")
    /\ shard' = [shard EXCEPT ![NameOf(h)] = NoDir]
    /\ hist' = [hist EXCEPT !.rebuilt = @ \cup {NameOf(h)}]
    /\ Goto(h, "create")
    /\ UNCHANGED <<cfgReadable, files, hashFile, phase, loadRes, alias,
                   firstErr, req, res, budget, ctx, pl, web, mu, call>>

\* bleve.NewUsing(dir, ...) creates the empty shard
Create(h) ==
    /\ At(h, "create")
    /\ shard' = [shard EXCEPT ![NameOf(h)] =
                    [exists |-> TRUE, builtFrom |-> <<>>, docs |-> {}]]
    /\ task' = [task EXCEPT ![h].pc = "index", ![h].created = TRUE,
                              ![h].open = TRUE]
    /\ UNCHANGED <<cfgReadable, files, hashFile, phase, loadRes, alias,
                   firstErr, req, res, hist, budget, ctx, pl, web, mu,
                   call>>

\* bleve.NewUsing fails: return nil, err
CreateFails(h) ==
    /\ At(h, "create")
    /\ CanFail /\ Failure
    /\ Goto(h, "fail")
    /\ UNCHANGED <<cfgReadable, files, hashFile, shard, phase, loadRes, alias,
                   firstErr, req, res, hist, ctx, pl, web, mu, call>>

\* The documents indexSpecOnDisk writes for the file it reads
SpecDocs(h) ==
    {IndexDoc(NameOf(h), e) : e \in extractOpEntries(files[Registry[h].File])}

\* indexSpecOnDisk indexes every operation of the spec
Index(h) ==
    /\ At(h, "index")
    /\ files[Registry[h].File].form # "unreadable"
    /\ shard' = [shard EXCEPT ![NameOf(h)] =
                    [exists |-> TRUE,
                     builtFrom |-> computeSHA(files[Registry[h].File]),
                     docs |-> SpecDocs(h)]]
    /\ Goto(h, "writeHash")
    /\ UNCHANGED <<cfgReadable, files, hashFile, phase, loadRes, alias,
                   firstErr, req, res, hist, budget, ctx, pl, web, mu,
                   call>>

\* indexSpecOnDisk fails (the file cannot be read, or idx.Index fails after
\* some of the documents): idx.Close(); return nil, err
IndexFails(h) ==
    /\ At(h, "index")
    /\ \/ /\ files[Registry[h].File].form = "unreadable"
          /\ UNCHANGED <<shard, budget>>
       \/ /\ files[Registry[h].File].form # "unreadable"
          /\ CanFail /\ Failure
          /\ \E part \in SUBSET SpecDocs(h) :
                /\ part # SpecDocs(h)
                /\ shard' = [shard EXCEPT ![NameOf(h)] =
                                [exists |-> TRUE,
                                 builtFrom |-> computeSHA(files[Registry[h].File]),
                                 docs |-> part]]
    /\ task' = [task EXCEPT ![h].pc = "fail", ![h].open = FALSE]
    /\ UNCHANGED <<cfgReadable, files, hashFile, phase, loadRes, alias,
                   firstErr, req, res, hist, ctx, pl, web, mu, call>>

\* WriteHash that leaves the hash file as it is
WriteHash_Skip(h) ==
    /\ At(h, "writeHash")
    /\ Goto(h, "add")
    /\ UNCHANGED <<cfgReadable, files, hashFile, shard, phase, loadRes, alias,
                   firstErr, req, res, hist, budget, ctx, pl, web, mu,
                   call>>

\* os.WriteFile(hashFile, spec.ContentHash)
WriteHash(h) ==
    /\ At(h, "writeHash")
    /\ hashFile' = [hashFile EXCEPT ![NameOf(h)] = Registry[h].ContentHash]
    /\ Goto(h, "add")
    /\ UNCHANGED <<cfgReadable, files, shard, phase, loadRes, alias,
                   firstErr, req, res, hist, budget, ctx, pl, web, mu,
                   call>>

\* os.WriteFile fails: idx.Close(); return nil, err
WriteHashFails(h) ==
    /\ At(h, "writeHash")
    /\ CanFail /\ Failure
    /\ task' = [task EXCEPT ![h].pc = "fail", ![h].open = FALSE]
    /\ UNCHANGED <<cfgReadable, files, hashFile, shard, phase, loadRes, alias,
                   firstErr, req, res, hist, ctx, pl, web, mu, call>>

\* bleve.Open(dir)
Open(h) ==
    /\ At(h, "open")
    /\ task' = [task EXCEPT ![h].pc = "add", ![h].open = TRUE]
    /\ UNCHANGED <<cfgReadable, files, hashFile, shard, phase, loadRes, alias,
                   firstErr, req, res, hist, budget, ctx, pl, web, mu,
                   call>>

\* bleve.Open fails: return nil, err
OpenFails(h) ==
    /\ At(h, "open")
    /\ CanFail /\ Failure
    /\ Goto(h, "fail")
    /\ UNCHANGED <<cfgReadable, files, hashFile, shard, phase, loadRes, alias,
                   firstErr, req, res, hist, ctx, pl, web, mu, call>>

----------------------------------------------------------------------------
(* BuildShardedIndices: the end of each goroutine, and the join            *)

\* mu.Lock(); alias.Add(idx); mu.Unlock()
AliasAdd(h) ==
    /\ At(h, "add")
    /\ alias' = Append(alias, NameOf(h))
    /\ Goto(h, "done")
    /\ UNCHANGED <<cfgReadable, files, hashFile, shard, phase, loadRes,
                   firstErr, req, res, hist, budget, ctx, pl, web, mu,
                   call>>

\* RecordError that keeps the latest error
RecordError_Last(h) ==
    /\ At(h, "fail")
    /\ firstErr' = <<"build", h>>
    /\ Goto(h, "failed")
    /\ UNCHANGED <<cfgReadable, files, hashFile, shard, phase, loadRes, alias,
                   req, res, hist, budget, ctx, pl, web, mu, call>>

\* mu.Lock(); if firstErr == nil { firstErr = err }; mu.Unlock()
RecordError(h) ==
    /\ At(h, "fail")
    /\ firstErr' = IF firstErr = "nil" THEN <<"build", h>> ELSE firstErr
    /\ Goto(h, "failed")
    /\ UNCHANGED <<cfgReadable, files, hashFile, shard, phase, loadRes, alias,
                   req, res, hist, budget, ctx, pl, web, mu, call>>

\* The context of this startup is cancelled while the shards are built
Cancel ==
    /\ phase = "building"
    /\ ~ctx
    /\ ctx' = TRUE
    /\ UNCHANGED <<cfgReadable, files, hashFile, shard, phase, loadRes, task,
                   alias, firstErr, req, res, hist, budget, pl, web, mu,
                   call>>

\* Join that does not wait for the goroutines
Join_NoWait ==
    /\ phase = "building"
    /\ phase' = IF firstErr = "nil" THEN "serving" ELSE "stopped"
    /\ hist' = [hist EXCEPT !.clean = (firstErr = "nil")]
    /\ ctx' = FALSE
    /\ UNCHANGED <<cfgReadable, files, hashFile, shard, loadRes, task, alias,
                   firstErr, req, res, budget, pl, web, mu, call>>

\* wg.Wait() returns; run serves requests, or returns the error
Join ==
    /\ phase = "building"
    /\ \A h \in DOMAIN task : task[h].pc \in {"done", "failed"}
    /\ phase' = IF firstErr = "nil" THEN "serving" ELSE "stopped"
    /\ hist' = [hist EXCEPT !.clean = (firstErr = "nil")]
    /\ ctx' = FALSE
    /\ UNCHANGED <<cfgReadable, files, hashFile, shard, loadRes, task, alias,
                   firstErr, req, res, budget, pl, web, mu, call>>

\* The process is stopped
Shutdown ==
    /\ phase = "serving"
    /\ phase' = "stopped"
    /\ UNCHANGED <<cfgReadable, files, hashFile, shard, loadRes, task, alias,
                   firstErr, req, res, hist, budget, ctx, pl, web, mu,
                   call>>

Next ==
    \/ \E f \in FileNames : \E c \in Versions(f) : EditSpec(f, c)
    \/ EditConfig
    \/ Load
    \/ LoadFailed
    \/ Spawn
    \/ \E h \in Hosts : Decide(h)
    \/ \E h \in Hosts : RemoveAll(h)
    \/ \E h \in Hosts : Create(h)
    \/ \E h \in Hosts : CreateFails(h)
    \/ \E h \in Hosts : Index(h)
    \/ \E h \in Hosts : IndexFails(h)
    \/ \E h \in Hosts : WriteHash(h)
    \/ \E h \in Hosts : WriteHashFails(h)
    \/ \E h \in Hosts : Open(h)
    \/ \E h \in Hosts : OpenFails(h)
    \/ \E h \in Hosts : AliasAdd(h)
    \/ \E h \in Hosts : RecordError(h)
    \/ Cancel
    \/ Join
    \/ Shutdown

Spec == Init /\ [][Next]_vars

----------------------------------------------------------------------------
(* The loader alone, on every configuration of the catalogue               *)

InitLoad ==
    /\ cfgReadable \in BOOLEAN
    /\ files \in [FileNames -> Contents]
    /\ hashFile = [n \in SpecNames |-> NoFile]
    /\ shard = [n \in SpecNames |-> NoDir]
    /\ phase = "stopped"
    /\ loadRes = NoLoad
    /\ task = <<>>
    /\ alias = <<>>
    /\ firstErr = "nil"
    /\ req = NoRequest
    /\ res = Unresolved("not run")
    /\ hist = NoHist
    /\ budget = [edits |-> 0, failures |-> 0]
    /\ ctx = FALSE
    /\ pl = NoParse
    /\ web = NoExchange
    /\ mu = NoHolder
    /\ call = NoCall

NextLoad == Load \/ LoadFailed \/ Spawn

SpecLoad == InitLoad /\ [][NextLoad]_vars

----------------------------------------------------------------------------
(* The resolver, on the index a first startup builds                       *)

Scheme == <<"s", ":", "/", "/">>

Methods == {GET, POST, <<"g", "e", "t">>}

RequestURLs ==
    { Scheme \o <<"x", "/", "p", "/", "k", "/", "7", "?", "v">>,
      Scheme \o <<"x", "/", "p", "/", "k">>,
      Scheme \o <<"x", "/", "p", "/", "u", "/", "7">>,
      Scheme \o <<"x", ":", "8", "/", "p", "/", "k">>,
      Scheme \o <<"y", "/", "7">>,
      Scheme \o <<"y", "/", "u", "/", "7", "?", "k">>,
      Scheme \o <<"n", "/", "k">>,
      Scheme \o <<"x", "/", "%">> }

\* The state a startup without failure reaches from an empty cache directory
InitResolve ==
    /\ cfgReadable = TRUE
    /\ files \in [FileNames -> GoodContents]
    /\ loadRes = LoadConfigAndIndex(cfgReadable, files)
    /\ phase = "serving"
    /\ task = [h \in DOMAIN Registry |-> [pc |-> "done", created |-> TRUE,
                                          open |-> TRUE]]
    /\ hashFile = [n \in SpecNames |->
                      IF \E h \in DOMAIN Registry : NameOf(h) = n
                      THEN Registry[CHOOSE h \in DOMAIN Registry : NameOf(h) = n].ContentHash
                      ELSE NoFile]
    /\ shard = [n \in SpecNames |->
                   IF \E h \in DOMAIN Registry : NameOf(h) = n
                   THEN LET h == CHOOSE h \in DOMAIN Registry : NameOf(h) = n
                        IN  [exists |-> TRUE, builtFrom |-> Registry[h].ContentHash,
                             docs |-> SpecDocs(h)]
                   ELSE NoDir]
    /\ alias \in Rankings({NameOf(h) : h \in DOMAIN Registry})
    /\ firstErr = "nil"
    /\ req = NoRequest
    /\ res = Unresolved("not run")
    /\ hist = [clean |-> TRUE, rerun |-> FALSE,
               rebuilt |-> {NameOf(h) : h \in DOMAIN Registry},
               hashFile |-> [n \in SpecNames |-> NoFile],
               shard |-> [n \in SpecNames |-> NoDir]]
    /\ budget = [edits |-> 0, failures |-> 0]
    /\ ctx = FALSE
    /\ pl = NoParse
    /\ web = NoExchange
    /\ mu = NoHolder
    /\ call = NoCall

\* A handler calls FindOperation(idx, reg, method, rawURL)
Resolve(method, rawURL) ==
    /\ phase = "serving"
    /\ req' = [method |-> method, url |-> rawURL]
    /\ res' \in FindOperation(AliasDocs, Registry, method, rawURL)
    /\ UNCHANGED <<cfgReadable, files, hashFile, shard, phase, loadRes, task,
                   alias, firstErr, hist, budget, ctx, pl, web, mu, call>>

NextResolve == \E m \in Methods, u \in RequestURLs : Resolve(m, u)

SpecResolve == InitResolve /\ [][NextResolve]_vars

----------------------------------------------------------------------------
(* Properties of the resolver (SpecResolve)                                *)

\* The request of req parsed as FindOperation parses it
ReqURL == ParseURL(req.url)
ReqHost == Hostname(ReqURL)
ReqResolvable == req # NoRequest /\ ReqURL.ok /\ ReqHost \in DOMAIN Registry

\* The indexed operations of spec meta with method M whose template matches
\* the path r
MatchingOps(meta, M, r) ==
    {d \in AliasDocs : /\ d.SpecName = meta.SpecName
                       /\ d.Method = M
                       /\ matchTemplate(d.Template, r)}

\* C1: FindOperation is complete: when the URL's host is registered for a
\* spec S with base path B and S has an indexed operation with the caller's
\* method (upper-cased) whose template matches the URL path after B, the
\* result has a nil error and names such an operation of S.
C1_FindOperationComplete ==
    ReqResolvable =>
        LET meta == Registry[ReqHost]
            B    == meta.BasePath
            full == ReqURL.Path
            ops  == MatchingOps(meta, ToUpper(req.method),
                                SubSeq(full, Len(B) + 1, Len(full)))
        IN  (HasPrefix(full, B) /\ ops # {}) =>
                /\ res.err = "nil"
                /\ res.specName = meta.SpecName
                /\ \E d \in ops : d.OperationID = res.operationId

\* C2: FindOperation is sound: a nil error comes only with the spec
\* registered for the URL's hostname and an indexed operation of it that has
\* the caller's method (upper-cased) and a template matching the full path
\* or the base-path-stripped path; when the spec has no such operation the
\* error is non-nil and specName, operationId and pathParams are empty.
C2_FindOperationSound ==
    LET meta == Registry[ReqHost]
        M    == ToUpper(req.method)
        full == ReqURL.Path
        ops  == MatchingOps(meta, M, full)
                    \cup MatchingOps(meta, M, RelPath(meta, full))
    IN  /\ res.err = "nil" =>
            /\ ReqResolvable
            /\ res.specName = meta.SpecName
            /\ \E d \in ops : d.OperationID = res.operationId
        /\ (ReqResolvable /\ ops = {}) =>
            /\ res.err # "nil"
            /\ res.specName = <<>> /\ res.operationId = <<>> /\ res.paramsNil

\* A lower-case method resolved to an operation, with its path parameter
C2_Witness ==
    /\ res.err = "nil"
    /\ req.method = <<"g", "e", "t">>
    /\ res.pathParams = (<<"d">> :> <<"7">>)

----------------------------------------------------------------------------
(* Properties of the loader (SpecLoad)                                     *)

\* The spec file declares a host: servers[0].url is there and parses
DeclaresHost(c) == c.form = "ok" /\ ParseURL(c.url).ok

\* C3: LoadConfigAndIndex fails, with no Registry, whenever two configured
\* specs declare the same host in servers[0].url.
C3_HostCollisionFails ==
    (/\ phase = "loaded"
     /\ cfgReadable
     /\ \A f \in FileNames : DeclaresHost(files[f])
     /\ \E f, g \in FileNames :
            f # g /\ ParseURL(files[f].url).Host = ParseURL(files[g].url).Host)
    => (loadRes.err # "nil" /\ loadRes.isNil)

\* C4: after a successful load every Registry entry is stored under the
\* hostname (host without port) of its spec's servers[0].url, the value
\* FindOperation looks up.
C4_HostKeyIsHostname ==
    (phase = "loaded" /\ loadRes.err = "nil") =>
        \A h \in DOMAIN Registry :
            h = Hostname(ParseURL(files[Registry[h].File].url))

\* The loader cannot take this spec: unreadable, not an object, servers
\* missing or empty, servers[0].url absent or unparseable
SpecRejected(c) ==
    \/ c.form \in {"unreadable", "notobject", "noservers", "emptyservers",
                   "badserver0", "nourl"}
    \/ ~ParseURL(c.url).ok

\* C5: LoadConfigAndIndex is all-or-nothing: an unreadable configuration or
\* one spec the loader cannot take gives an error and a nil Registry, and no
\* spec without a servers[0].url is ever registered.
C5_LoadAllOrNothing ==
    phase = "loaded" =>
        /\ (~cfgReadable \/ \E f \in FileNames : SpecRejected(files[f])) =>
                /\ loadRes.err # "nil"
                /\ loadRes.isNil
                /\ DOMAIN loadRes.registry = {}
        /\ \A h \in DOMAIN loadRes.registry :
                ~SpecRejected(files[loadRes.registry[h].File])

\* The first spec loads and the second one has no servers[0].url
C5_Witness ==
    /\ phase = "loaded"
    /\ cfgReadable
    /\ ~SpecRejected(files["f1"])
    /\ files["f2"].form = "nourl"
    /\ loadRes.isNil

----------------------------------------------------------------------------
(* Properties of the cache directory over startups (Spec)                  *)

\* The hash file of shard n agrees with what the shard was built from
Consistent(n) == shard[n].exists /\ shard[n].builtFrom = hashFile[n]

\* C6: whenever <specName>.hash exists its contents are the content hash of
\* the bytes the shard was built from (stated between two runs of the
\* process), and a shard for which this does not hold is rebuilt, not opened.
C6_HashMatchesShard ==
    /\ phase = "stopped" =>
            \A n \in SpecNames : hashFile[n] # NoFile => Consistent(n)
    /\ \A h \in DOMAIN task :
            At(h, "open") => (hashFile[NameOf(h)] # NoFile /\ Consistent(NameOf(h)))

\* C7: after a rebuild that failed once the fresh shard was created, the
\* hash file is absent, also when an earlier build had written one.
C7_FailedRebuildLeavesNoHash ==
    \A h \in DOMAIN task :
        (task[h].pc \in {"fail", "failed"} /\ task[h].created) =>
            hashFile[NameOf(h)] = NoFile

\* C8: a startup that follows a successful one with unchanged configuration
\* and spec bytes rebuilds no shard (every task takes the open path) and
\* leaves every shard directory and hash file as it found them.
C8_RerunRebuildsNothing ==
    hist.rerun =>
        /\ hist.rebuilt = {}
        /\ \A h \in DOMAIN task :
                task[h].pc \in {"decide", "open", "add", "done", "fail", "failed"}
        /\ hashFile = hist.hashFile
        /\ shard = hist.shard

\* The second of two startups on unchanged inputs serves two shards
C8_Witness ==
    /\ hist.rerun
    /\ phase = "serving"
    /\ Cardinality(DOMAIN task) = 2
    /\ \A h \in DOMAIN task : task[h].pc = "done"

\* The cache directory as this startup found it asks for a rebuild of h
Stale(h) ==
    \/ hist.hashFile[NameOf(h)] # Registry[h].ContentHash
    \/ ~hist.shard[NameOf(h)].exists

\* C9: a startup rebuilds a shard exactly when the stored hash differs from
\* ContentHash or the shard directory does not exist, and opens it
\* otherwise; once the rebuild is done the hash file holds the new hash and
\* the shard the operations of the spec as edited; a shard that is opened
\* is the one the earlier startup left.
C9_RebuildExactlyOnChange ==
    phase \in {"building", "serving"} =>
        \A h \in DOMAIN task :
            LET n == NameOf(h)
            IN  /\ task[h].pc # "decide" =>
                        ((task[h].pc = "removeAll" \/ n \in hist.rebuilt) <=> Stale(h))
                /\ (task[h].pc = "done" /\ Stale(h)) =>
                        /\ hashFile[n] = Registry[h].ContentHash
                        /\ shard[n] = [exists |-> TRUE,
                                       builtFrom |-> Registry[h].ContentHash,
                                       docs |-> SpecDocs(h)]
                /\ (task[h].pc = "done" /\ ~Stale(h)) =>
                        /\ hashFile[n] = hist.hashFile[n]
                        /\ shard[n] = hist.shard[n]

\* Startup B: the hash file held H1, the spec now hashes to H2, the shard
\* was rebuilt and the process serves
C9_Witness ==
    /\ phase = "serving"
    /\ \E h \in DOMAIN task :
            /\ hist.hashFile[NameOf(h)] \notin {NoFile, Registry[h].ContentHash}
            /\ hist.shard[NameOf(h)].exists
            /\ hashFile[NameOf(h)] = Registry[h].ContentHash

\* C10: after BuildShardedIndices returned without error, the hash file of
\* every spec of the Registry exists and holds that spec's ContentHash, the
\* hash of the bytes the loader read in this startup.
C10_HashFilesAfterStartup ==
    phase = "serving" =>
        \A h \in DOMAIN Registry :
            /\ hashFile[NameOf(h)] = Registry[h].ContentHash
            /\ Registry[h].ContentHash = computeSHA(files[Registry[h].File])

\* A startup that rebuilt one shard and opened the other serves
C10_Witness ==
    /\ phase = "serving"
    /\ Cardinality(DOMAIN Registry) = 2
    /\ Cardinality(hist.rebuilt) = 1

----------------------------------------------------------------------------
(* Properties of the fan-out and fan-in of BuildShardedIndices (Spec)      *)

Finished(h) == task[h].pc \in {"done", "failed"}

\* C11: BuildShardedIndices has one task per Registry entry and returns
\* only when every one of them has finished: outside the build, and in
\* particular while the server serves, no task is still running.
C11_FanIn ==
    /\ phase \in {"building", "serving"} => DOMAIN task = DOMAIN Registry
    /\ phase # "building" => \A h \in DOMAIN task : Finished(h)

\* A first startup that built both shards serves
C11_Witness ==
    /\ phase = "serving"
    /\ Cardinality(DOMAIN task) = 2
    /\ hist.rebuilt = SpecNames

\* One step of the goroutine of Registry entry h
TaskStep(h) ==
    \/ Decide(h) \/ RemoveAll(h) \/ Create(h) \/ CreateFails(h)
    \/ Index(h) \/ IndexFails(h) \/ WriteHash(h) \/ WriteHashFails(h)
    \/ Open(h) \/ OpenFails(h) \/ AliasAdd(h) \/ RecordError(h)

\* C12, in the states of a build and after it: an unfinished task can take
\* a step whatever the other tasks did; the recorded error names a task
\* that failed; once BuildShardedIndices has returned, the error is non-nil
\* exactly when a task failed, and the server serves only without error.
C12_ErrorState ==
    /\ phase = "building" =>
            \A h \in DOMAIN task : ~Finished(h) => ENABLED TaskStep(h)
    /\ firstErr # "nil" =>
            \E h \in DOMAIN task : firstErr = <<"build", h>> /\ task[h].pc = "failed"
    /\ (phase \in {"serving", "stopped"} /\ task # <<>>) =>
            (firstErr # "nil" <=> \E h \in DOMAIN task : task[h].pc = "failed")
    /\ phase = "serving" => firstErr = "nil"

\* C12, in the steps of a build: the first task to record a failure sets
\* the error, no later step changes it, and the return of
\* BuildShardedIndices with an error ends the startup.
C12_ErrorStep ==
    phase = "building" =>
        /\ firstErr # "nil" => firstErr' = firstErr
        /\ \A h \in DOMAIN task :
                (firstErr = "nil" /\ task[h].pc = "fail" /\ task'[h].pc = "failed")
                    => firstErr' = <<"build", h>>
        /\ (phase' # "building" /\ firstErr # "nil") => phase' = "stopped"

\* C12: the error BuildShardedIndices returns is non-nil exactly when a
\* task failed, it is the error of the first task that recorded one and is
\* never overwritten, a failed task does not keep the others from
\* finishing, and startup fails when an error was recorded.
C12_FirstErrorKept == [](C12_ErrorState) /\ [][C12_ErrorStep]_vars

\* Both tasks failed, and the startup ended with the error of one of them
C12_Witness ==
    /\ phase = "stopped"
    /\ Cardinality(DOMAIN task) = 2
    /\ \A h \in DOMAIN task : task[h].pc = "failed"
    /\ firstErr # "nil"

\* C13: once the context handed to startup is cancelled, the loader loads
\* no spec, no task starts a rebuild, and the startup does not go on to
\* serve requests.
C13_CancelStopsStartup ==
    /\ [](phase = "loaded" /\ ctx => loadRes.err # "nil")
    /\ [][ctx => \A h \in DOMAIN task :
                    ~(task[h].pc = "decide" /\ task'[h].pc = "removeAll")]_vars
    /\ [][(ctx /\ phase = "building") => phase' # "serving"]_vars

----------------------------------------------------------------------------
(* Log Parser (ParseLog)                                                   *)

\* unicode.IsSpace, on the characters of the modelled logs
IsSpace(c) == c \in {" ", "\t", "\r", "\n"}

\* strings.TrimSpace
RECURSIVE TrimSpace(_)
TrimSpace(s) ==
    IF s = <<>> THEN s
    ELSE IF IsSpace(Head(s)) THEN TrimSpace(Tail(s))
    ELSE IF IsSpace(s[Len(s)]) THEN TrimSpace(SubSeq(s, 1, Len(s) - 1))
    ELSE s

\* strings.SplitN(s, sep, 2) with a one-character separator
SplitN2(s, c) ==
    LET i == IndexByte(s, c)
    IN  IF i = 0 THEN <<s>>
        ELSE <<SubSeq(s, 1, i - 1), SubSeq(s, i + 1, Len(s))>>

\* strings.Join with a one-character separator
RECURSIVE Join1(_, _)
Join1(elems, c) ==
    IF elems = <<>> THEN <<>>
    ELSE IF Len(elems) = 1 THEN elems[1]
    ELSE elems[1] \o <<c>> \o Join1(Tail(elems), c)

\* textproto: the bytes a header key may hold, among the modelled ones
validHeaderFieldByte(c) == c \in Letters \cup Digits \cup {"-"}

\* textproto.CanonicalMIMEHeaderKey: a key with a byte that is not allowed
\* is returned as it is; otherwise the first letter and every letter after
\* a hyphen are upper-cased and the others lower-cased.
CanonicalMIMEHeaderKey(k) ==
    IF \E i \in 1..Len(k) : ~validHeaderFieldByte(k[i]) THEN k
    ELSE [i \in 1..Len(k) |->
            IF i = 1 \/ k[i - 1] = "-" THEN UpperChar(k[i]) ELSE LowerChar(k[i])]

\* MIMEHeader.Add and url.Values.Add: append v to the values under key k
Add(m, k, v) ==
    IF k \in DOMAIN m THEN [m EXCEPT ![k] = Append(@, v)]
    ELSE [x \in DOMAIN m \cup {k} |-> IF x = k THEN <<v>> ELSE m[x]]

\* url.QueryUnescape for a string without valid percent-escape: a plus
\* sign is a blank
QueryUnescape(s) == [i \in 1..Len(s) |-> IF s[i] = "+" THEN " " ELSE s[i]]

\* url.ParseQuery as URL.Query uses it: the pairs that do not parse (a
\* semicolon, a bad escape) are left out
RECURSIVE parseQueryFrom(_, _, _)
parseQueryFrom(pieces, i, m) ==
    IF i > Len(pieces) THEN m
    ELSE LET kv == SplitN2(pieces[i], "=")
             k  == kv[1]
             v  == IF Len(kv) = 2 THEN kv[2] ELSE <<>>
         IN  IF pieces[i] = <<>> \/ IndexByte(pieces[i], ";") # 0
                    \/ BadEscape(k) \/ BadEscape(v)
             THEN parseQueryFrom(pieces, i + 1, m)
             ELSE parseQueryFrom(pieces, i + 1,
                                 Add(m, QueryUnescape(k), QueryUnescape(v)))

ParseQuery(rawQuery) == parseQueryFrom(Split(rawQuery, "&"), 1, <<>>)

KwMethod == <<"R", "e", "q", "u", "e", "s", "t", " ", "m", "e", "t", "h",
              "o", "d", ":">>
KwURI == <<"R", "e", "q", "u", "e", "s", "t", " ", "U", "R", "I", ":">>
KwHeaders == <<"H", "e", "a", "d", "e", "r", "s", ":">>
KwBody == <<"B", "o", "d", "y", ":">>
KwResponse == <<"R", "e", "s", "p", "o", "n", "s", "e">>
LitNone == <<"<", "n", "o", "n", "e", ">">>

\* AddHeader that stores the key as it is written
AddHeader_Raw(headers, text) ==
    LET parts == SplitN2(text, "=")
    IN  IF Len(parts) = 2
        THEN Add(headers, TrimSpace(parts[1]), TrimSpace(parts[2]))
        ELSE headers

\* One k=v text added to the headers, when it has an equals sign
AddHeader(headers, text) ==
    LET parts == SplitN2(text, "=")
    IN  IF Len(parts) = 2
        THEN Add(headers, CanonicalMIMEHeaderKey(TrimSpace(parts[1])),
                 TrimSpace(parts[2]))
        ELSE headers

\* ParseLine that lets nothing end the body
ParseLine_OpenBody(p, line) ==
    LET trim == TrimSpace(line)
    IN  IF p.state = "Body" THEN [p EXCEPT !.bodyLines = Append(@, trim)]
        ELSE IF HasPrefix(trim, KwHeaders) THEN [p EXCEPT !.state = "Headers"]
        ELSE IF HasPrefix(trim, KwBody) THEN [p EXCEPT !.state = "Body"]
        ELSE p

\* The body of the loop of ParseLog for one line: the switch on the
\* trimmed line and the state
ParseLine(p, line) ==
    LET trim == TrimSpace(line)
    IN  IF HasPrefix(trim, KwMethod)
        THEN [p EXCEPT !.Method = TrimSpace(TrimPrefix(trim, KwMethod))]
        ELSE IF HasPrefix(trim, KwURI)
        THEN LET uri == TrimSpace(TrimPrefix(trim, KwURI))
                 u   == ParseURL(uri)
             IN  [p EXCEPT !.URI = uri,
                           !.Params = IF u.ok THEN ParseQuery(u.RawQuery) ELSE @]
        ELSE IF HasPrefix(trim, KwHeaders)
        THEN LET rest == TrimSpace(TrimPrefix(trim, KwHeaders))
             IN  [p EXCEPT !.Headers = IF rest # <<>> /\ rest # LitNone
                                       THEN AddHeader(@, rest) ELSE @,
                           !.state = "Headers"]
        ELSE IF HasPrefix(trim, KwBody)
        THEN LET c == TrimSpace(TrimPrefix(trim, KwBody))
             IN  [p EXCEPT !.bodyLines = IF c # <<>> /\ c # LitNone
                                         THEN Append(@, c) ELSE @,
                           !.state = "Body"]
        ELSE IF p.state = "Headers"
        THEN IF trim = <<>> THEN [p EXCEPT !.state = "None"]
             ELSE [p EXCEPT !.Headers = AddHeader(@, trim)]
        ELSE IF p.state = "Body"
        THEN IF trim = <<>> \/ HasPrefix(trim, KwResponse)
             THEN [p EXCEPT !.state = "None"]
             ELSE [p EXCEPT !.bodyLines = Append(@, trim)]
        ELSE p

\* ParseEnd that requires the method only
ParseEnd_MethodOnly(p) ==
    [p EXCEPT !.Body = Join1(p.bodyLines, "\n"),
              !.err = IF p.Method = <<>>
                      THEN "missing method or URI" ELSE "nil"]

\* The end of ParseLog: the body is joined, Method and URI are required
ParseEnd(p) ==
    [p EXCEPT !.Body = Join1(p.bodyLines, "\n"),
              !.err = IF p.Method = <<>> \/ p.URI = <<>>
                      THEN "missing method or URI" ELSE "nil"]

\* ParseLog about to read the first line of log, a sequence of lines of
\* which the last is the one read together with the end of the stream
ParseStart(log, shape) ==
    [log |-> log, shape |-> shape, pos |-> 1, state |-> "None",
     Method |-> <<>>, URI |-> <<>>, Headers |-> <<>>, Params |-> <<>>,
     bodyLines |-> <<>>, Body |-> <<>>, err |-> "running"]

\* ReadLine that ends the loop at io.EOF before the line read with it is
\* interpreted
ReadLine_DropLast ==
    /\ pl.err = "running"
    /\ pl' = IF pl.pos = Len(pl.log) THEN ParseEnd([pl EXCEPT !.pos = @ + 1])
             ELSE [ParseLine(pl, pl.log[pl.pos]) EXCEPT !.pos = @ + 1]
    /\ UNCHANGED <<cfgReadable, files, hashFile, shard, phase, loadRes, task,
                   alias, firstErr, req, res, hist, budget, ctx, web, mu,
                   call>>

\* One iteration of the loop: r.ReadString gives the next line; after the
\* line read with io.EOF the loop ends and ParseLog returns
ReadLine ==
    /\ pl.err = "running"
    /\ LET p == [ParseLine(pl, pl.log[pl.pos]) EXCEPT !.pos = @ + 1]
       IN  pl' = IF pl.pos = Len(pl.log) THEN ParseEnd(p) ELSE p
    /\ UNCHANGED <<cfgReadable, files, hashFile, shard, phase, loadRes, task,
                   alias, firstErr, req, res, hist, budget, ctx, web, mu,
                   call>>

\* r.ReadString fails with an error other than io.EOF: return pr, err
ReadFails ==
    /\ pl.err = "running"
    /\ pl' = [pl EXCEPT !.err = "read error"]
    /\ UNCHANGED <<cfgReadable, files, hashFile, shard, phase, loadRes, task,
                   alias, firstErr, req, res, hist, budget, ctx, web, mu,
                   call>>

----------------------------------------------------------------------------
(* The parser on the logs of a catalogue                                   *)

MaxLines == 3
MaxHeaders == 2
MaxBody == 2

\* The sequences over S of length lo..hi
SeqsOf(S, lo, hi) == UNION {[1..n -> S] : n \in lo..hi}

\* Lines of any kind, for logs of any shape
FreeLines ==
    { <<"R", "e", "q", "u", "e", "s", "t", " ", "m", "e", "t", "h", "o", "d",
        ":", " ", "g", "e", "t">>,
      <<"R", "e", "q", "u", "e", "s", "t", " ", "m", "e", "t", "h", "o", "d",
        ":">>,
      <<"R", "e", "q", "u", "e", "s", "t", " ", "U", "R", "I", ":", " ", "s",
        ":", "/", "/", "x", "/", "p", "/", "k", "?", "v", "=", "7">>,
      <<"R", "e", "q", "u", "e", "s", "t", " ", "U", "R", "I", ":">>,
      <<"H", "e", "a", "d", "e", "r", "s", ":">>,
      <<"H", "e", "a", "d", "e", "r", "s", ":", " ", "t", "o", "=", "7">>,
      <<"B", "o", "d", "y", ":">>,
      <<"B", "o", "d", "y", ":", " ", "o", "k">>,
      <<" ", "g", "e", "t", "=", "7", " ">>,
      <<>>,
      <<"R", "e", "s", "p", "o", "n", "s", "e", " ", "8">> }

\* The parts a log of the usual shape is written from: a method line, a
\* URI line, a Headers block and a Body block
LogMethod == <<"P", "O", "S", "T">>
LogURI == <<"s", ":", "/", "/", "x", "/", "p", "/", "k", "?", "v", "=", "7",
            "&", "u", "=", "8">>
HeaderEntries ==
    { [k |-> <<"t", "o", "-", "p">>, v |-> <<"7">>, sp |-> <<>>],
      [k |-> <<"T", "O", "-", "P">>, v |-> <<"7", "=", "8">>, sp |-> <<" ">>],
      [k |-> <<"G", "e", "t">>, v |-> <<>>, sp |-> <<" ">>] }
BodyTexts == { <<"o", "k">>, <<"{", "k", "=", "7", "}">> }

Shapes ==
    [inlineHeader : BOOLEAN, headers : SeqsOf(HeaderEntries, 0, MaxHeaders),
     gap : BOOLEAN, inlineBody : BOOLEAN, body : SeqsOf(BodyTexts, 0,
         MaxBody),
     newline : BOOLEAN]

HeaderText(e) == e.k \o e.sp \o <<"=">> \o e.sp \o e.v \o e.sp

\* The first entry of the block stands on the Headers: line when
\* inlineHeader is set, the first text of the body on the Body: line when
\* inlineBody is set
RenderLog(sh) ==
    LET hIn  == sh.inlineHeader /\ sh.headers # <<>>
        bIn  == sh.inlineBody /\ sh.body # <<>>
        hs   == IF hIn THEN Tail(sh.headers) ELSE sh.headers
        bs   == IF bIn THEN Tail(sh.body) ELSE sh.body
    IN  << KwMethod \o <<" ">> \o LogMethod,
           KwURI \o <<" ">> \o LogURI \o <<"\r">>,
           KwHeaders \o (IF hIn THEN <<" ">> \o HeaderText(sh.headers[1]) ELSE <<>>) >>
        \o [i \in 1..Len(hs) |-> <<" ", " ">> \o HeaderText(hs[i])]
        \o (IF sh.gap THEN << <<>> >> ELSE <<>>)
        \o << KwBody \o (IF bIn THEN <<" ">> \o sh.body[1] ELSE <<>>) >>
        \o [i \in 1..Len(bs) |-> <<" ", " ">> \o bs[i] \o <<" ">>]
        \o (IF sh.newline THEN << <<>> >> ELSE <<>>)

NoShape == <<>>

InitParse ==
    /\ cfgReadable = TRUE
    /\ files = [f \in FileNames |-> IF f = "f1" THEN FileA1 ELSE FileB1]
    /\ hashFile = [n \in SpecNames |-> NoFile]
    /\ shard = [n \in SpecNames |-> NoDir]
    /\ phase = "stopped"
    /\ loadRes = NoLoad
    /\ task = <<>>
    /\ alias = <<>>
    /\ firstErr = "nil"
    /\ req = NoRequest
    /\ res = Unresolved("not run")
    /\ hist = NoHist
    /\ budget = [edits |-> 0, failures |-> 0]
    /\ ctx = FALSE
    /\ pl \in {ParseStart(l, NoShape) : l \in SeqsOf(FreeLines, 1, MaxLines)}
                \cup {ParseStart(RenderLog(sh), sh) : sh \in Shapes}
    /\ web = NoExchange
    /\ mu = NoHolder
    /\ call = NoCall

\* An iteration of the loop: r.ReadString fails, or gives a line
NextParse == ReadFails \/ ReadLine

SpecParse == InitParse /\ [][NextParse]_vars

----------------------------------------------------------------------------
(* Properties of the parser (SpecParse)                                    *)

ParseReturned == pl.err \notin {"not run", "running"}

\* C14: ParseLog returns the malformed-log failure exactly when the whole
\* input was consumed and Method or URI is empty; missing headers, params
\* or body never make it fail.
C14_MalformedIffNoMethodOrURI ==
    ParseReturned =>
        /\ pl.err = "missing method or URI" <=>
                (pl.pos = Len(pl.log) + 1 /\ (pl.Method = <<>> \/ pl.URI = <<>>))
        /\ (pl.pos = Len(pl.log) + 1 /\ pl.Method # <<>> /\ pl.URI # <<>>) =>
                pl.err = "nil"

\* A log of two lines, a method and a URI, parses: no header and no body
C14_Witness ==
    /\ pl.err = "nil"
    /\ pl.Headers = <<>>
    /\ pl.Body = <<>>
    /\ Len(pl.log) = 2

\* The headers a block of entries stands for: every value under the
\* canonical form of its key, in the order of the entries
RECURSIVE HeadersOf(_, _)
HeadersOf(entries, m) ==
    IF entries = <<>> THEN m
    ELSE HeadersOf(Tail(entries),
                   Add(m, CanonicalMIMEHeaderKey(entries[1].k), entries[1].v))

\* C15: for a log made of a method line, a URI line, a Headers block of
\* k=v lines and a Body block, ParseLog returns without error the trimmed
\* method and URI, the headers holding exactly each pair under its
\* canonical key in input order, and the trimmed body lines joined by
\* line feeds in input order.
C15_UsualLogParsed ==
    (pl.shape # NoShape /\ pl.pos = Len(pl.log) + 1 /\ pl.err # "running") =>
        /\ pl.err = "nil"
        /\ pl.Method = LogMethod
        /\ pl.URI = LogURI
        /\ pl.Headers = HeadersOf(pl.shape.headers, <<>>)
        /\ pl.Body = Join1(pl.shape.body, "\n")

\* A log with two values under one canonical key and a body of two lines
C15_Witness ==
    /\ pl.shape # NoShape
    /\ pl.err = "nil"
    /\ \E k \in DOMAIN pl.Headers : Len(pl.Headers[k]) = 2
    /\ Len(pl.bodyLines) = 2

\* The line ParseLog is about to read, trimmed
CurrentLine == TrimSpace(pl.log[pl.pos])

ParserStates == {"None", "Headers", "Body"}

\* The state after a line, as the code takes it: the four keywords are
\* looked for before the state is
StateAfter(state, trim) ==
    IF HasPrefix(trim, KwMethod) \/ HasPrefix(trim, KwURI) THEN state
    ELSE IF HasPrefix(trim, KwHeaders) THEN "Headers"
    ELSE IF HasPrefix(trim, KwBody) THEN "Body"
    ELSE IF state = "Headers" /\ trim = <<>> THEN "None"
    ELSE IF state = "Body" /\ (trim = <<>> \/ HasPrefix(trim, KwResponse))
        THEN "None"
    ELSE state

----------------------------------------------------------------------------
(* Search Service: SearchHandler over SearchBleve                          *)

DefaultLimit == 20
DefaultOffset == 0

\* The decimal digits of the modelled parameters
DecimalValue(c) ==
    CASE c = "0" -> 0 [] c = "1" -> 1 [] c = "2" -> 2 [] c = "7" -> 7
      [] c = "8" -> 8 [] OTHER -> -1

RECURSIVE digitsValue(_, _)
digitsValue(ds, acc) ==
    IF ds = <<>> THEN acc
    ELSE digitsValue(Tail(ds), 10 * acc + DecimalValue(Head(ds)))

\* strconv.Atoi, for numbers within the range of int: an optional sign and
\* at least one decimal digit
Atoi(s) ==
    LET signed == s # <<>> /\ Head(s) \in {"+", "-"}
        ds     == IF signed THEN Tail(s) ELSE s
    IN  IF ds = <<>> \/ \E i \in 1..Len(ds) : DecimalValue(ds[i]) < 0
        THEN [ok |-> FALSE, n |-> 0]
        ELSE [ok |-> TRUE,
              n |-> IF Head(s) = "-" THEN 0 - digitsValue(ds, 0)
                    ELSE digitsValue(ds, 0)]

\* limit of the handler: the parameter when it parses and is positive
LimitOf(ls) ==
    IF ls # <<>> /\ Atoi(ls).ok /\ Atoi(ls).n > 0 THEN Atoi(ls).n
    ELSE DefaultLimit

\* offset of the handler: the parameter when it parses and is not negative
OffsetOf(os) ==
    IF os # <<>> /\ Atoi(os).ok /\ Atoi(os).n >= 0 THEN Atoi(os).n
    ELSE DefaultOffset

\* GET /search?q=..&spec=..&tag=..&limit=..&offset=..: an absent parameter
\* reads as the empty string, spec and tag as the sets of their values
SearchHandler(q, specNames, tagFilters, ls, os) ==
    /\ phase = "serving"
    /\ \E out \in SearchBleve(AliasDocs, specNames, tagFilters, q,
                              LimitOf(ls), OffsetOf(os)) :
         web' = [handler |-> "search", q |-> q, spec |-> specNames,
                 tag |-> tagFilters, limitParam |-> ls, offsetParam |-> os,
                 limit |-> LimitOf(ls), offset |-> OffsetOf(os),
                 status |-> IF out.err = "nil" THEN 200 ELSE 500,
                 total |-> out.total, results |-> out.results]
    /\ UNCHANGED <<cfgReadable, files, hashFile, shard, phase, loadRes, task,
                   alias, firstErr, req, res, hist, budget, ctx, pl, mu,
                   call>>

\* Specs with descriptions and tags, and an operationId with a vertical bar
OpFull(method, template, operationId, description, tags) ==
    [Method |-> method, Template |-> template, OperationID |-> operationId,
     Description |-> description, Tags |-> tags]

FileS1 ==
    [bytes |-> "S1", form |-> "ok", url |-> <<"s", ":", "/", "/", "x", "/",
                                              "p">>,
     ops |-> {OpFull(GET, <<"/", "k", "/", "{", "d", "}">>, <<"g", "k">>,
                            <<"o", "k">>, {<<"t">>}),
              OpFull(POST, <<"/", "k">>, <<"p", "k">>, <<>>, {<<"t">>,
                             <<"u">>})}]

FileS2 ==
    [bytes |-> "S2", form |-> "ok", url |-> <<"s", ":", "/", "/", "y", "/">>,
     ops |-> {OpFull(GET, <<"/", "u">>, <<"g", "|", "u">>, <<>>, {}),
              OpFull(GET, <<"/", "{", "d", "}">>, <<"g", "d">>, <<>>,
                            {<<"u">>})}]

Queries == { <<"g", "k">>, <<"p", "k">>, <<"g", "e", "t">>, <<"g", "|",
               "u">>, <<"o", "k">>, <<"/">>, <<>> }
SpecFilters == { {}, {<<"n", "7">>}, {<<"n", "8">>, <<"x">>} }
TagFilters == { {}, {<<"t">>}, {<<"u">>, <<"x">>} }
LimitParams == { <<>>, <<"0">>, <<"1">>, <<"+", "2">>, <<"-", "1">>, <<"k">> }
OffsetParams == { <<>>, <<"0">>, <<"1">>, <<"-", "1">>, <<"7", "x">> }

\* The state a startup without failure reaches on the two specs
InitSearch ==
    /\ cfgReadable = TRUE
    /\ files = [f \in FileNames |-> IF f = "f1" THEN FileS1 ELSE FileS2]
    /\ loadRes = LoadConfigAndIndex(cfgReadable, files)
    /\ phase = "serving"
    /\ task = [h \in DOMAIN Registry |-> [pc |-> "done", created |-> TRUE,
                                          open |-> TRUE]]
    /\ hashFile = [n \in SpecNames |->
                      Registry[CHOOSE h \in DOMAIN Registry : NameOf(h) = n].ContentHash]
    /\ shard = [n \in SpecNames |->
                   LET h == CHOOSE h \in DOMAIN Registry : NameOf(h) = n
                   IN  [exists |-> TRUE,
                       builtFrom |-> Registry[h].ContentHash,
                        docs |-> SpecDocs(h)]]
    /\ alias \in Rankings(SpecNames)
    /\ firstErr = "nil"
    /\ req = NoRequest
    /\ res = Unresolved("not run")
    /\ hist = [clean |-> TRUE, rerun |-> FALSE, rebuilt |-> SpecNames,
               hashFile |-> [n \in SpecNames |-> NoFile],
               shard |-> [n \in SpecNames |-> NoDir]]
    /\ budget = [edits |-> 0, failures |-> 0]
    /\ ctx = FALSE
    /\ pl = NoParse
    /\ web = NoExchange
    /\ mu = NoHolder
    /\ call = NoCall

\* The requests: every query under every filter with the default paging,
\* and two queries under every paging
SearchRequests ==
    (Queries \X SpecFilters \X TagFilters \X {<<>>} \X {<<>>})
        \cup ({<<"g", "e", "t">>, <<"/">>} \X {{}} \X {{}, {<<"u">>, <<"x">>}}
                    \X LimitParams \X OffsetParams)

NextSearch ==
    \E r \in SearchRequests : SearchHandler(r[1], r[2], r[3], r[4], r[5])

SpecSearch == InitSearch /\ [][NextSearch]_vars

----------------------------------------------------------------------------
(* Properties of the search service (SpecSearch)                           *)

Answered == web.handler = "search" /\ web.status = 200

\* The documents a request asks for: those of all shards that match the
\* text and pass each filter that is given
Wanted ==
    {d \in AliasDocs :
        /\ QueryMatches(web.q, d)
        /\ web.spec # {} => d.SpecName \in web.spec
        /\ web.tag # {} => d.Tags \cap web.tag # {}}

Max(a, b) == IF a > b THEN a ELSE b

\* C17: SearchBleve returns exactly the documents, over all shards, that
\* match the query and pass the spec filter and the tag filter when given;
\* total is their number, and min(limit, max(0, total - offset)) of them
\* are returned, each once.
C17_SearchSelects ==
    Answered =>
        /\ web.total = Cardinality(Wanted)
        /\ Len(web.results) = Min(web.limit, Max(0, web.total - web.offset))
        /\ \A i \in DOMAIN web.results :
                \E d \in Wanted : web.results[i] = Materialise(d)
        /\ \A i, j \in DOMAIN web.results :
                web.results[i] = web.results[j] => i = j

\* A search with both filters that returns some but not all documents of
\* both shards
C17_Witness ==
    /\ Answered
    /\ web.spec # {} /\ web.tag # {}
    /\ web.total >= 1
    /\ web.total < Cardinality(AliasDocs)

\* C18: limit and offset fall back to 20 and 0 exactly when the parameter
\* is absent, is not a well-formed integer or is negative; every
\* well-formed value that is not negative is passed to SearchBleve as it is.
C18_PagingDefaults ==
    web.handler = "search" =>
        /\ web.limit = IF Atoi(web.limitParam).ok /\ Atoi(web.limitParam).n >= 0
                       THEN Atoi(web.limitParam).n ELSE DefaultLimit
        /\ web.offset = IF Atoi(web.offsetParam).ok /\ Atoi(web.offsetParam).n >= 0
                        THEN Atoi(web.offsetParam).n ELSE DefaultOffset

\* C19: the top hit of a search for the operationId of an indexed
\* operation, when no other document matches it, carries the method,
\* template, operationId, description and tags of that operation.
C19_RoundTrip ==
    (Answered /\ web.spec = {} /\ web.tag = {} /\ web.offset = 0) =>
        \A d \in AliasDocs :
            (d.OperationID = web.q /\ \A e \in AliasDocs :
                                        QueryMatches(web.q, e) <=> e = d)
            => /\ web.results # <<>>
               /\ web.results[1].Method = d.Method
               /\ web.results[1].Template = d.Template
               /\ web.results[1].OperationID = d.OperationID
               /\ web.results[1].Description = d.Description
               /\ web.results[1].Tags = d.Tags

\* C20: the id of every indexed document splits on the vertical bar into
\* exactly its SpecName, Method, Template and OperationID, and every hit
\* carries the four fields of a document.
C20_IdDecodes ==
    /\ \A d \in AliasDocs :
            Split(d.id, "|") = <<d.SpecName, d.Method, d.Template,
                                 d.OperationID>>
    /\ Answered =>
            \A i \in DOMAIN web.results :
                \E d \in AliasDocs :
                    /\ web.results[i].SpecName = d.SpecName
                    /\ web.results[i].Method = d.Method
                    /\ web.results[i].Template = d.Template
                    /\ web.results[i].OperationID = d.OperationID

----------------------------------------------------------------------------
(* Lookup and action handlers: RaSearchHandler and ActionHandler           *)

\* ParseLog on a whole request body: the loop from the position of p to the
\* end of the log (a bytes.Reader gives no error other than io.EOF)
RECURSIVE parseFrom(_)
parseFrom(p) ==
    IF p.pos > Len(p.log) THEN ParseEnd(p)
    ELSE parseFrom([ParseLine(p, p.log[p.pos]) EXCEPT !.pos = @ + 1])

ParseLog(log) == parseFrom(ParseStart(log, NoShape))

\* The ParsedRequest ParseLog returned, with the given PathParams
ParsedRequest(p, pathParams) ==
    [Method |-> p.Method, URI |-> p.URI, Headers |-> p.Headers,
     Params |-> p.Params, Body |-> p.Body, PathParams |-> pathParams]

\* No payload: the answer is an error text
NoPayload == <<>>

\* One exchange of a handler that first parses the body: what it was given,
\* the error of ParseLog ("not run" when the body could not be read), the
\* status and payload of the answer, and the external requests issued
Exchange(handler, readable, body, parseErr, status, payload, sent) ==
    [handler |-> handler, readable |-> readable, body |-> body,
     parseErr |-> parseErr, status |-> status, payload |-> payload,
     sent |-> sent]

\* RaSearchHandler that answers without the path parameters
RaSearchHandler_NoParams(readable, body) ==
    /\ phase = "serving"
    /\ \E p \in {ParseLog(body)} :
           IF ~readable \/ p.err # "nil"
           THEN /\ req' = NoRequest
                /\ res' = Unresolved("not run")
                /\ web' = Exchange("raSearch", readable, body,
                                   IF readable THEN p.err ELSE "not run",
                                   400, NoPayload, <<>>)
           ELSE /\ req' = [method |-> p.Method, url |-> p.URI]
                /\ res' \in FindOperation(AliasDocs, Registry, p.Method,
                    p.URI)
                /\ web' = IF res'.err # "nil"
                          THEN Exchange("raSearch", TRUE, body, "nil", 404,
                                        NoPayload, <<>>)
                          ELSE Exchange("raSearch", TRUE, body, "nil", 200,
                                        [specName |-> res'.specName,
                                         operationId |-> res'.operationId,
                                         parsedInfo |->
                                            ParsedRequest(p, <<>>)],
                                        <<>>)
    /\ UNCHANGED <<cfgReadable, files, hashFile, shard, phase, loadRes, task,
                   alias, firstErr, hist, budget, ctx, pl, mu, call>>

\* POST /raSearch with a captured log as the body; readable is whether
\* io.ReadAll(r.Body) succeeds
RaSearchHandler(readable, body) ==
    /\ phase = "serving"
    /\ \E p \in {ParseLog(body)} :
           IF ~readable \/ p.err # "nil"
           THEN /\ req' = NoRequest
                /\ res' = Unresolved("not run")
                /\ web' = Exchange("raSearch", readable, body,
                                   IF readable THEN p.err ELSE "not run",
                                   400, NoPayload, <<>>)
           ELSE /\ req' = [method |-> p.Method, url |-> p.URI]
                /\ res' \in FindOperation(AliasDocs, Registry, p.Method,
                    p.URI)
                /\ web' = IF res'.err # "nil"
                          THEN Exchange("raSearch", TRUE, body, "nil", 404,
                                        NoPayload, <<>>)
                          ELSE Exchange("raSearch", TRUE, body, "nil", 200,
                                        [specName |-> res'.specName,
                                         operationId |-> res'.operationId,
                                         parsedInfo |->
                                            ParsedRequest(p,
                                                res'.pathParams)],
                                        <<>>)
    /\ UNCHANGED <<cfgReadable, files, hashFile, shard, phase, loadRes, task,
                   alias, firstErr, hist, budget, ctx, pl, mu, call>>

\* ActionHandler that sends the request before it looks the operation up
ActionHandler_SendFirst(readable, body, delivered) ==
    /\ phase = "serving"
    /\ \E p \in {ParseLog(body)} :
           IF ~readable \/ p.err # "nil"
           THEN /\ req' = NoRequest
                /\ res' = Unresolved("not run")
                /\ web' = Exchange("action", readable, body,
                                   IF readable THEN p.err ELSE "not run",
                                   400, NoPayload, <<>>)
           ELSE /\ req' = [method |-> p.Method, url |-> p.URI]
                /\ res' \in FindOperation(AliasDocs, Registry, p.Method,
                    p.URI)
                /\ web' = IF res'.err # "nil"
                          THEN Exchange("action", TRUE, body, "nil", 404,
                                        NoPayload, <<ParsedRequest(p, <<>>)>>)
                          ELSE Exchange("action", TRUE, body, "nil",
                                        IF delivered THEN 200 ELSE 500,
                                        IF delivered THEN "response" ELSE NoPayload,
                                        <<ParsedRequest(p, <<>>)>>)
    /\ UNCHANGED <<cfgReadable, files, hashFile, shard, phase, loadRes, task,
                   alias, firstErr, hist, budget, ctx, pl, mu, call>>

\* POST /action with a captured log as the body; delivered is whether
\* DoRequest, once called, returns a response
ActionHandler(readable, body, delivered) ==
    /\ phase = "serving"
    /\ \E p \in {ParseLog(body)} :
           IF ~readable \/ p.err # "nil"
           THEN /\ req' = NoRequest
                /\ res' = Unresolved("not run")
                /\ web' = Exchange("action", readable, body,
                                   IF readable THEN p.err ELSE "not run",
                                   400, NoPayload, <<>>)
           ELSE /\ req' = [method |-> p.Method, url |-> p.URI]
                /\ res' \in FindOperation(AliasDocs, Registry, p.Method,
                    p.URI)
                /\ web' = IF res'.err # "nil"
                          THEN Exchange("action", TRUE, body, "nil", 404,
                                        NoPayload, <<>>)
                          ELSE Exchange("action", TRUE, body, "nil",
                                        IF delivered THEN 200 ELSE 500,
                                        IF delivered THEN "response" ELSE NoPayload,
                                        <<ParsedRequest(p, <<>>)>>)
    /\ UNCHANGED <<cfgReadable, files, hashFile, shard, phase, loadRes, task,
                   alias, firstErr, hist, budget, ctx, pl, mu, call>>

\* The specs the handlers are exercised on: one with base path /p whose
\* templates include the root, a lone parameter and one that repeats the
\* base path, and one with an empty base path
FileW1 ==
    [bytes |-> "W1", form |-> "ok", url |-> <<"s", ":", "/", "/", "x", "/",
                                              "p">>,
     ops |-> {OpEntry(GET, <<"/", "k", "/", "{", "d", "}">>, <<"g", "k">>),
              OpEntry(POST, <<"/", "k">>, <<"p", "k">>),
              OpEntry(GET, <<"/", "p", "/", "{", "k", "}">>, <<"g", "p">>),
              OpEntry(GET, <<"/", "{", "p", "}">>, <<"g", "1">>),
              OpEntry(GET, <<"/">>, <<"g", "0">>)}]

FileW2 ==
    [bytes |-> "W2", form |-> "ok", url |-> <<"s", ":", "/", "/", "y", "/">>,
     ops |-> {OpEntry(GET, <<"/", "{", "d", "}">>, <<"g", "d">>),
              OpEntry(GET, <<"/", "u", "/", "{", "d", "}">>, <<"g", "u">>),
              OpEntry(GET, <<>>, <<"g", "e">>)}]

\* Captured URLs: those of the resolver's requests, the two whose path is the
\* base path of their spec, one whose path is outside the base path and one
\* that continues the base path without a slash
WebURLs ==
    RequestURLs \cup {<<"s", ":", "/", "/", "x", "/", "p">>,
                      <<"s", ":", "/", "/", "y">>,
                      <<"s", ":", "/", "/", "x", "/", "k", "/", "7">>,
                      <<"s", ":", "/", "/", "x", "/", "p", "k", "/", "7">>}

\* The captured requests: every URL with GET, and other methods on some
WebCalls ==
    ({GET} \X WebURLs)
        \cup ({POST, <<"g", "e", "t">>} \X {<<"s", ":", "/", "/", "x", "/",
                       "p", "/", "k">>, <<"s", ":", "/", "/", "y", "/", "u",
                       "/", "7", "?", "k">>, <<"s", ":", "/", "/", "x", "/",
                       "p", "/", "k", "/", "7", "?", "v">>,
                                   <<"s", ":", "/", "/", "x", "/", "p">>,
                                     <<"s", ":", "/", "/", "n", "/", "k">>})

\* Request bodies: a method line and a URI line for every captured request,
\* a log of the usual shape, and logs without a method, without a URI and
\* without anything
WebLogs ==
    { << KwMethod \o <<" ">> \o c[1], KwURI \o <<" ">> \o c[2] >> :
            c \in WebCalls }
    \cup { RenderLog([inlineHeader |-> FALSE,
                      headers |-> <<[k |-> <<"t", "o", "-", "p">>,
                                    v |-> <<"7">>, sp |-> <<>>]>>,
                      gap |-> FALSE, inlineBody |-> FALSE,
                      body |-> << <<"o", "k">> >>, newline |-> TRUE]),
           << KwMethod \o <<" ", "G", "E", "T">> >>,
           << KwMethod, KwURI \o <<" ", "s", ":", "/", "/", "y", "/", "u",
             "/", "7">> >>,
           << <<>> >> }

\* The exchanges: every body that can be read, and one that cannot
WebRequests ==
    ({TRUE} \X WebLogs) \cup ({FALSE} \X {<< KwMethod \o <<" ", "G", "E",
                                            "T">> >>})

\* The state a startup without failure reaches on the two specs
InitWeb ==
    /\ cfgReadable = TRUE
    /\ files = [f \in FileNames |-> IF f = "f1" THEN FileW1 ELSE FileW2]
    /\ loadRes = LoadConfigAndIndex(cfgReadable, files)
    /\ phase = "serving"
    /\ task = [h \in DOMAIN Registry |-> [pc |-> "done", created |-> TRUE,
                                          open |-> TRUE]]
    /\ hashFile = [n \in SpecNames |->
                      Registry[CHOOSE h \in DOMAIN Registry : NameOf(h) = n].ContentHash]
    /\ shard = [n \in SpecNames |->
                   LET h == CHOOSE h \in DOMAIN Registry : NameOf(h) = n
                   IN  [exists |-> TRUE,
                        builtFrom |-> Registry[h].ContentHash,
                        docs |-> SpecDocs(h)]]
    /\ alias \in Rankings(SpecNames)
    /\ firstErr = "nil"
    /\ req = NoRequest
    /\ res = Unresolved("not run")
    /\ hist = [clean |-> TRUE, rerun |-> FALSE, rebuilt |-> SpecNames,
               hashFile |-> [n \in SpecNames |-> NoFile],
               shard |-> [n \in SpecNames |-> NoDir]]
    /\ budget = [edits |-> 0, failures |-> 0]
    /\ ctx = FALSE
    /\ pl = NoParse
    /\ web = NoExchange
    /\ mu = NoHolder
    /\ call = NoCall

NextWeb ==
    \/ \E r \in WebRequests : RaSearchHandler(r[1], r[2])
    \/ \E r \in WebRequests, delivered \in BOOLEAN :
            ActionHandler(r[1], r[2], delivered)

SpecWeb == InitWeb /\ [][NextWeb]_vars

----------------------------------------------------------------------------
(* Properties of the lookup and action handlers (SpecWeb)                  *)

\* The body of the last exchange as ParseLog parses it
WebParsed == ParseLog(web.body)

\* The indexed operations of the registered spec that match the last
\* resolver call: the caller's method upper-cased, the template against the
\* full path or the base-path-stripped path
ReqOps ==
    LET meta == Registry[ReqHost]
    IN  MatchingOps(meta, ToUpper(req.method), ReqURL.Path)
            \cup MatchingOps(meta, ToUpper(req.method),
                             RelPath(meta, ReqURL.Path))

\* C21: POST /raSearch answers 400 whenever the body has no method or no
\* URI, 404 whenever the log parses and the registered spec has no matching
\* operation, and 200 only when FindOperation succeeded, with its specName
\* and operationId and the ParsedRequest carrying its pathParams.
C21_RaSearchStatus ==
    (web.handler = "raSearch" /\ web.readable) =>
        /\ (WebParsed.Method = <<>> \/ WebParsed.URI = <<>>) => web.status = 400
        /\ (WebParsed.Method # <<>> /\ WebParsed.URI # <<>>
                /\ ReqResolvable /\ ReqOps = {}) => web.status = 404
        /\ web.status = 200 =>
                /\ WebParsed.Method # <<>> /\ WebParsed.URI # <<>>
                /\ req = [method |-> WebParsed.Method, url |-> WebParsed.URI]
                /\ res.err = "nil"
                /\ web.payload =
                        [specName |-> res.specName,
                         operationId |-> res.operationId,
                         parsedInfo |-> ParsedRequest(WebParsed,
                             res.pathParams)]

\* A lookup answered with 200 and a path parameter
C21_Witness ==
    /\ web.handler = "raSearch"
    /\ web.status = 200
    /\ web.payload.parsedInfo.PathParams # <<>>

\* C22: at /raSearch and /action each kind of resolver error has the status
\* of the error table: an invalid URL 400, an unknown host 404, no matching
\* operation 404, a failure of the search engine 500.
C22_ErrorTable ==
    (web.handler \in {"raSearch", "action"} /\ web.parseErr = "nil") =>
        /\ res.err = "invalid URL" => web.status = 400
        /\ res.err = "no spec for host" => web.status = 404
        /\ res.err = "no operation found" => web.status = 404
        /\ res.err = "search error" => web.status = 500

\* C23: /action issues the external request only after ParseLog and
\* FindOperation have both succeeded on the request's log; on a parse
\* failure or a resolver failure nothing is sent.
C23_RequestAfterLookup ==
    web.handler = "action" =>
        /\ web.sent # <<>> =>
                /\ web.readable
                /\ WebParsed.err = "nil"
                /\ req = [method |-> WebParsed.Method, url |-> WebParsed.URI]
                /\ res.err = "nil"
                /\ web.sent = <<ParsedRequest(WebParsed, <<>>)>>
        /\ (~web.readable \/ WebParsed.err # "nil" \/ res.err # "nil") =>
                web.sent = <<>>

\* An action answered after the request was sent, with the body of the log
C23_Witness ==
    /\ web.handler = "action"
    /\ web.status = 200
    /\ Len(web.sent) = 1
    /\ web.sent[1].Body # <<>>
    /\ res.err = "nil"

\* The last resolver call has a URL whose path is the base path of its spec
PathIsBase == ReqResolvable /\ ReqURL.Path = Registry[ReqHost].BasePath

----------------------------------------------------------------------------
(* matchTemplate and extractPathParams on the templates and paths of a     *)
(* catalogue, and inside FindOperation                                     *)

MaxSegments == 3

\* Segments of a template: a literal, a parameter, the parameter without a
\* name, and the empty segment
TemplateSegments == {<<"k">>, <<"{", "d", "}">>, <<"{", "}">>, <<>>}

\* Segments of a path: the literal, another value, and the empty segment
PathSegments == {<<"k">>, <<"7">>, <<>>}

\* The texts with up to MaxSegments segments of S after a leading slash; an
\* empty last segment gives the trailing slash
TextsOver(S) ==
    { <<"/">> \o Join1(segs, "/") : segs \in SeqsOf(S, 0, MaxSegments) }

Templates == TextsOver(TemplateSegments)
Paths == TextsOver(PathSegments)
BasePaths == {<<>>, <<"/", "p">>}

\* A call of matchTemplate, before and after it ran
MatchCall(tmpl, path) ==
    [fn |-> "matchTemplate", tmpl |-> tmpl, path |-> path, done |-> FALSE,
     ok |-> FALSE]

\* A call of extractPathParams, before and after it ran
ExtractCall(basePath, tmpl, fullPath) ==
    [fn |-> "extractPathParams", basePath |-> basePath, tmpl |-> tmpl,
     fullPath |-> fullPath, done |-> FALSE, params |-> <<>>]

\* The process serves the two specs of the handlers; a call of one of the
\* two functions is about to run, or the resolver is about to be called
InitTemplate ==
    /\ cfgReadable = TRUE
    /\ files = [f \in FileNames |-> IF f = "f1" THEN FileW1 ELSE FileW2]
    /\ loadRes = LoadConfigAndIndex(cfgReadable, files)
    /\ phase = "serving"
    /\ task = [h \in DOMAIN Registry |-> [pc |-> "done", created |-> TRUE,
                                          open |-> TRUE]]
    /\ hashFile = [n \in SpecNames |->
                      Registry[CHOOSE h \in DOMAIN Registry : NameOf(h) = n].ContentHash]
    /\ shard = [n \in SpecNames |->
                   LET h == CHOOSE h \in DOMAIN Registry : NameOf(h) = n
                   IN  [exists |-> TRUE,
                        builtFrom |-> Registry[h].ContentHash,
                        docs |-> SpecDocs(h)]]
    /\ alias = <<Cfgs[1].Name, Cfgs[2].Name>>
    /\ firstErr = "nil"
    /\ req = NoRequest
    /\ res = Unresolved("not run")
    /\ hist = [clean |-> TRUE, rerun |-> FALSE, rebuilt |-> SpecNames,
               hashFile |-> [n \in SpecNames |-> NoFile],
               shard |-> [n \in SpecNames |-> NoDir]]
    /\ budget = [edits |-> 0, failures |-> 0]
    /\ ctx = FALSE
    /\ pl = NoParse
    /\ web = NoExchange
    /\ mu = NoHolder
    /\ call \in {NoCall}
                \cup {MatchCall(t, p) : t \in Templates, p \in Paths}
                \cup {ExtractCall(b, t, b \o p) :
                        b \in BasePaths, t \in Templates, p \in Paths}

\* matchTemplate(tmpl, path) runs
MatchTemplate ==
    /\ call.fn = "matchTemplate" /\ ~call.done
    /\ call' = [call EXCEPT !.done = TRUE,
                            !.ok = matchTemplate(call.tmpl, call.path)]
    /\ UNCHANGED <<cfgReadable, files, hashFile, shard, phase, loadRes, task,
                   alias, firstErr, req, res, hist, budget, ctx, pl, web, mu>>

\* extractPathParams(basePath, tmpl, fullPath) runs
ExtractPathParams ==
    /\ call.fn = "extractPathParams" /\ ~call.done
    /\ call' = [call EXCEPT !.done = TRUE,
                            !.params = extractPathParams(call.basePath,
                                            call.tmpl, call.fullPath)]
    /\ UNCHANGED <<cfgReadable, files, hashFile, shard, phase, loadRes, task,
                   alias, firstErr, req, res, hist, budget, ctx, pl, web, mu>>

\* FindOperation runs on a captured request, the two functions inside it
ResolveCaptured ==
    /\ call = NoCall
    /\ \E c \in WebCalls : Resolve(c[1], c[2])

NextTemplate == MatchTemplate \/ ExtractPathParams \/ ResolveCaptured

SpecTemplate == InitTemplate /\ [][NextTemplate]_vars

----------------------------------------------------------------------------
(* Properties of the template functions (SpecTemplate)                     *)

\* A segment in braces
Braced(seg) == Len(seg) >= 2 /\ Head(seg) = "{" /\ seg[Len(seg)] = "}"

\* The segments of a text: it is split on the slash after its leading and
\* trailing slashes are trimmed
Segments(s) == Split(Trim(s, "/"), "/")

MatchReturned == call.fn = "matchTemplate" /\ call.done

\* C24: when matchTemplate(T, P) is true, T and P have the same number of
\* segments and every segment of T that is not in braces equals the segment
\* of P at its position.
C24_MatchImpliesSegments ==
    (MatchReturned /\ call.ok) =>
        LET ts == Segments(call.tmpl)
            ps == Segments(call.path)
        IN  /\ Len(ts) = Len(ps)
            /\ \A i \in 1..Len(ts) : ~Braced(ts[i]) => ts[i] = ps[i]

\* A template of a literal and a parameter has matched
C24_Witness ==
    /\ MatchReturned /\ call.ok
    /\ \E i, j \in 1..Len(Segments(call.tmpl)) :
            /\ Braced(Segments(call.tmpl)[i])
            /\ Segments(call.tmpl)[j] = <<"k">>

\* C25: a segment {name} of the template matches a path segment only if
\* that path segment is not empty: a path with an empty segment at the
\* position of a parameter does not match.
C25_ParamNeedsValue ==
    (MatchReturned /\ call.ok) =>
        LET ts == Segments(call.tmpl)
            ps == Segments(call.path)
        IN  \A i \in 1..Len(ts) :
                (i <= Len(ps) /\ Braced(ts[i])) => ps[i] # <<>>

\* The path with the base path stripped from its front
Stripped(basePath, fullPath) ==
    IF HasPrefix(fullPath, basePath)
    THEN SubSeq(fullPath, Len(basePath) + 1, Len(fullPath)) ELSE fullPath

\* The name in the braces of a segment
NameIn(seg) == SubSeq(seg, 2, Len(seg) - 1)

\* What the claim asks of the parameters params extracted for a template
\* and a full path: pick(ts, name) is the set of positions whose path
\* segment the name may be mapped to
ParamsAre(params, basePath, tmpl, fullPath, pick(_, _)) ==
    LET ts == Segments(tmpl)
        ps == Segments(Stripped(basePath, fullPath))
    IN  IF Len(ts) # Len(ps) THEN params = <<>>
        ELSE /\ DOMAIN params = {NameIn(ts[i]) : i \in {j \in 1..Len(ts) : Braced(ts[j])}}
             /\ \A name \in DOMAIN params :
                    \A i \in pick(ts, name) : params[name] = ps[i]

\* Every position of a segment {name}
EveryPosition(ts, name) ==
    {i \in 1..Len(ts) : Braced(ts[i]) /\ NameIn(ts[i]) = name}

\* The last position of a segment {name}
LastPosition(ts, name) ==
    {i \in EveryPosition(ts, name) : \A j \in EveryPosition(ts,
        name) : j <= i}

\* The indexed operation FindOperation has resolved the last call to
ResolvedDocs ==
    {d \in AliasDocs : d.SpecName = res.specName
                        /\ d.OperationID = res.operationId}

\* C27 as stated: with equal numbers of segments the result maps the name
\* of every brace segment of the template to the path segment at the same
\* position and holds nothing else; with different numbers it is the empty
\* map, and FindOperation still reports the operation as matched.
C27_ParamsBySegment ==
    /\ (call.fn = "extractPathParams" /\ call.done) =>
            ParamsAre(call.params, call.basePath, call.tmpl, call.fullPath,
                      EveryPosition)
    /\ (ReqResolvable /\ res.err = "nil") =>
            \A d \in ResolvedDocs :
                ParamsAre(res.pathParams, Registry[ReqHost].BasePath,
                          d.Template, ReqURL.Path, EveryPosition)

\* C27, amended: a name that stands in several brace segments is mapped to
\* the path segment at the position of the last of them.
C27_ParamsByLastSegment ==
    /\ (call.fn = "extractPathParams" /\ call.done) =>
            ParamsAre(call.params, call.basePath, call.tmpl, call.fullPath,
                      LastPosition)
    /\ (ReqResolvable /\ res.err = "nil") =>
            \A d \in ResolvedDocs :
                ParamsAre(res.pathParams, Registry[ReqHost].BasePath,
                          d.Template, ReqURL.Path, LastPosition)

\* FindOperation has matched an operation whose template and stripped path
\* differ in their number of segments
C27_Witness ==
    /\ ReqResolvable /\ res.err = "nil"
    /\ res.pathParams = <<>>
    /\ \E d \in ResolvedDocs :
            /\ \E i \in 1..Len(Segments(d.Template)) : Braced(Segments(d.Template)[i])
            /\ Len(Segments(d.Template))
                    # Len(Segments(Stripped(Registry[ReqHost].BasePath,
                        ReqURL.Path)))

----------------------------------------------------------------------------
(* Properties of the rebuild over startups (Spec)                          *)

\* C28: whenever BuildOrOpenSpecIndex returns an index for a spec, over any
\* sequence of startups, edits and failed rebuilds, the shard holds a
\* document for every operation of the spec at its current ContentHash and
\* no document of another version; a shard left partially built by a failed
\* rebuild is never returned by a later call.
C28_RebuildAtomic ==
    \A h \in DOMAIN task :
        At(h, "add") =>
            shard[NameOf(h)] = [exists |-> TRUE,
                                builtFrom |-> Registry[h].ContentHash,
                                docs |-> SpecDocs(h)]

----------------------------------------------------------------------------
(* BuildShardedIndices on a configuration whose entries share a name       *)

\* A configuration file of two entries with the same name
DupCfgs == << [Name |-> Cfgs[1].Name, File |-> "f1"],
              [Name |-> Cfgs[1].Name, File |-> "f2"] >>

\* The cache directory as a startup on the spec content c left it
CacheOf(c) ==
    [hashFile |-> [n \in SpecNames |->
                      IF n = Cfgs[1].Name THEN computeSHA(c) ELSE NoFile],
     shard |-> [n \in SpecNames |->
                   IF n = Cfgs[1].Name
                   THEN [exists |-> TRUE, builtFrom |-> computeSHA(c),
                         docs |-> {IndexDoc(n,
                             e) : e \in extractOpEntries(c)}]
                   ELSE NoDir]]

\* The empty cache directory
NoCache ==
    [hashFile |-> [n \in SpecNames |-> NoFile],
     shard |-> [n \in SpecNames |-> NoDir]]

\* LoadConfigAndIndex has returned the Registry of the two entries, whose
\* specs declare different hosts; the cache directory is empty or was left
\* by an earlier startup
InitDup ==
    /\ cfgReadable = TRUE
    /\ files = [f \in FileNames |-> IF f = "f1" THEN FileA1 ELSE FileB1]
    /\ \E cache \in {NoCache, CacheOf(FileA1), CacheOf(FileB1)} :
            /\ hashFile = cache.hashFile
            /\ shard = cache.shard
            /\ hist = [clean |-> FALSE, rerun |-> FALSE, rebuilt |-> {},
                       hashFile |-> cache.hashFile, shard |-> cache.shard]
    /\ phase = "loaded"
    /\ loadRes = loadWith(DupCfgs, files, 1, <<>>)
    /\ task = <<>>
    /\ alias = <<>>
    /\ firstErr = "nil"
    /\ req = NoRequest
    /\ res = Unresolved("not run")
    /\ budget = [edits |-> 0, failures |-> 0]
    /\ ctx = FALSE
    /\ pl = NoParse
    /\ web = NoExchange
    /\ mu = NoHolder
    /\ call = NoCall

NextDup ==
    \/ Spawn
    \/ \E h \in Hosts : Decide(h)
    \/ \E h \in Hosts : RemoveAll(h)
    \/ \E h \in Hosts : Create(h)
    \/ \E h \in Hosts : CreateFails(h)
    \/ \E h \in Hosts : Index(h)
    \/ \E h \in Hosts : IndexFails(h)
    \/ \E h \in Hosts : WriteHash(h)
    \/ \E h \in Hosts : WriteHashFails(h)
    \/ \E h \in Hosts : Open(h)
    \/ \E h \in Hosts : OpenFails(h)
    \/ \E h \in Hosts : AliasAdd(h)
    \/ \E h \in Hosts : RecordError(h)
    \/ Join

SpecDup == InitDup /\ [][NextDup]_vars

\* The task of h has decided to rebuild and has not finished: it is about
\* to remove the shard directory, create it, index into it or write the
\* hash file
Rebuilding(h) ==
    /\ phase = "building"
    /\ task[h].pc \in {"removeAll", "create", "index", "writeHash"}

\* C29: during BuildShardedIndices no two concurrently running tasks
\* remove, create, index into or write the same shard directory or the same
\* hash file, for every Registry LoadConfigAndIndex can produce, also from a
\* configuration where two entries with different hosts carry the same name.
C29_DisjointShards ==
    \A g, h \in DOMAIN task :
        (g # h /\ Rebuilding(g) /\ Rebuilding(h)) => NameOf(g) # NameOf(h)

----------------------------------------------------------------------------
(* BuildShardedIndices: the critical sections of the goroutines, step by   *)
(* step                                                                    *)

\* Lock that does not wait for the mutex
Lock_NoWait(h) ==
    /\ phase = "building"
    /\ h \in DOMAIN task
    /\ task[h].pc \in {"add", "fail"}
    /\ mu' = <<h>>
    /\ task' = [task EXCEPT ![h].pc = IF @ = "add" THEN "addRead" ELSE "setErr"]
    /\ UNCHANGED <<cfgReadable, files, hashFile, shard, phase, loadRes, alias,
                   firstErr, req, res, hist, budget, ctx, pl, web, call>>

\* mu.Lock(), after BuildOrOpenSpecIndex returned the index or the error
Lock(h) ==
    /\ phase = "building"
    /\ h \in DOMAIN task
    /\ task[h].pc \in {"add", "fail"}
    /\ mu = NoHolder
    /\ mu' = <<h>>
    /\ task' = [task EXCEPT ![h].pc = IF @ = "add" THEN "addRead" ELSE "setErr"]
    /\ UNCHANGED <<cfgReadable, files, hashFile, shard, phase, loadRes, alias,
                   firstErr, req, res, hist, budget, ctx, pl, web, call>>

\* alias.Add(idx), first half: the shards the alias holds are read
AliasRead(h) ==
    /\ At(h, "addRead")
    /\ task' = [task EXCEPT ![h] = [pc |-> "addWrite", created |-> @.created,
                                    open |-> @.open, seen |-> alias]]
    /\ UNCHANGED <<cfgReadable, files, hashFile, shard, phase, loadRes, alias,
                   firstErr, req, res, hist, budget, ctx, pl, web, mu, call>>

\* alias.Add(idx), second half: the shards read and idx are stored
AliasWrite(h) ==
    /\ At(h, "addWrite")
    /\ alias' = Append(task[h].seen, NameOf(h))
    /\ Goto(h, "addUnlock")
    /\ UNCHANGED <<cfgReadable, files, hashFile, shard, phase, loadRes,
                   firstErr, req, res, hist, budget, ctx, pl, web, mu, call>>

\* if firstErr == nil { firstErr = err }
SetFirstErr(h) ==
    /\ At(h, "setErr")
    /\ firstErr' = IF firstErr = "nil" THEN <<"build", h>> ELSE firstErr
    /\ Goto(h, "errUnlock")
    /\ UNCHANGED <<cfgReadable, files, hashFile, shard, phase, loadRes, alias,
                   req, res, hist, budget, ctx, pl, web, mu, call>>

\* mu.Unlock(), and the goroutine ends
Unlock(h) ==
    /\ phase = "building"
    /\ h \in DOMAIN task
    /\ task[h].pc \in {"addUnlock", "errUnlock"}
    /\ mu' = NoHolder
    /\ task' = [task EXCEPT ![h].pc = IF @ = "addUnlock" THEN "done" ELSE "failed"]
    /\ UNCHANGED <<cfgReadable, files, hashFile, shard, phase, loadRes, alias,
                   firstErr, req, res, hist, budget, ctx, pl, web, call>>

\* LoadConfigAndIndex has returned the Registry of the two specs; the cache
\* directory is empty or as a startup without failure left it
InitFanIn ==
    /\ cfgReadable = TRUE
    /\ files = [f \in FileNames |-> IF f = "f1" THEN FileA1 ELSE FileB1]
    /\ loadRes = LoadConfigAndIndex(cfgReadable, files)
    /\ phase = "loaded"
    /\ \E cache \in
            {NoCache,
             [hashFile |-> [n \in SpecNames |->
                    Registry[CHOOSE h \in DOMAIN Registry : NameOf(h) = n].ContentHash],
              shard |-> [n \in SpecNames |->
                    LET h == CHOOSE h \in DOMAIN Registry : NameOf(h) = n
                    IN  [exists |-> TRUE,
                         builtFrom |-> Registry[h].ContentHash,
                         docs |-> SpecDocs(h)]]]} :
            /\ hashFile = cache.hashFile
            /\ shard = cache.shard
            /\ hist = [clean |-> FALSE, rerun |-> FALSE, rebuilt |-> {},
                       hashFile |-> cache.hashFile, shard |-> cache.shard]
    /\ task = <<>>
    /\ alias = <<>>
    /\ firstErr = "nil"
    /\ req = NoRequest
    /\ res = Unresolved("not run")
    /\ budget = [edits |-> 0, failures |-> 0]
    /\ ctx = FALSE
    /\ pl = NoParse
    /\ web = NoExchange
    /\ mu = NoHolder
    /\ call = NoCall

NextFanIn ==
    \/ Spawn
    \/ \E h \in Hosts : Decide(h)
    \/ \E h \in Hosts : RemoveAll(h)
    \/ \E h \in Hosts : Create(h)
    \/ \E h \in Hosts : CreateFails(h)
    \/ \E h \in Hosts : Index(h)
    \/ \E h \in Hosts : IndexFails(h)
    \/ \E h \in Hosts : WriteHash(h)
    \/ \E h \in Hosts : WriteHashFails(h)
    \/ \E h \in Hosts : Open(h)
    \/ \E h \in Hosts : OpenFails(h)
    \/ \E h \in Hosts : Lock(h)
    \/ \E h \in Hosts : AliasRead(h)
    \/ \E h \in Hosts : AliasWrite(h)
    \/ \E h \in Hosts : SetFirstErr(h)
    \/ \E h \in Hosts : Unlock(h)
    \/ Join

SpecFanIn == InitFanIn /\ [][NextFanIn]_vars

\* The goroutine of h is between mu.Lock() and mu.Unlock()
InCritical(h) ==
    task[h].pc \in {"addRead", "addWrite", "addUnlock", "setErr", "errUnlock"}

\* The goroutine of h has added its shard to the alias
HasAdded(h) == task[h].pc \in {"addUnlock", "done"}

\* How many times the alias holds the shard of name n
Count(n) == Cardinality({i \in 1..Len(alias) : alias[i] = n})

\* C30: under every interleaving of the tasks the additions to the alias
\* are mutually exclusive and none is lost or duplicated: the alias holds
\* exactly one shard for each task that has added its own, and when
\* BuildShardedIndices returns, one for each task that succeeded and none
\* for a task that failed.
C30_AliasExact ==
    /\ \A g, h \in DOMAIN task : (InCritical(g) /\ InCritical(h)) => g = h
    /\ \A h \in DOMAIN task : InCritical(h) <=> mu = <<h>>
    /\ \A h \in DOMAIN task : Count(NameOf(h)) = IF HasAdded(h) THEN 1 ELSE 0
    /\ Len(alias) = Cardinality({h \in DOMAIN task : HasAdded(h)})
    /\ phase \in {"serving", "stopped"} =>
            \A h \in DOMAIN task :
                /\ task[h].pc \in {"done", "failed"}
                /\ Count(NameOf(h)) = IF task[h].pc = "done" THEN 1 ELSE 0

\* BuildShardedIndices has returned with one task that succeeded and one
\* that failed
C30_Witness ==
    /\ phase = "stopped"
    /\ \E g, h \in DOMAIN task :
            /\ task[g].pc = "done" /\ task[h].pc = "failed"
            /\ alias = <<NameOf(g)>>
            /\ firstErr = <<"build", h>>

----------------------------------------------------------------------------
(* The base path as a boundary (SpecWeb)                                   *)

\* path lies under base at a segment boundary
UnderBase(path, base) ==
    /\ HasPrefix(path, base)
    /\ (Len(path) > Len(base) => path[Len(base) + 1] = "/")

\* C31: for a spec whose base path (without trailing slashes) is not empty,
\* FindOperation resolves a URL to an operation of that spec only when the
\* URL's path starts with the base path and continues, if at all, with '/'.
C31_UnderBasePath ==
    (/\ ReqResolvable
     /\ res.err = "nil"
     /\ TrimRight(Registry[ReqHost].BasePath, "/") # <<>>)
        => UnderBase(ReqURL.Path, TrimRight(Registry[ReqHost].BasePath, "/"))

----------------------------------------------------------------------------
(* Shard handles (Spec)                                                    *)

\* The tasks whose bleve.Index has been created or opened and not closed
OpenHandles == {h \in DOMAIN task : task[h].open}

\* A startup has ended with the error of BuildShardedIndices
StartupAborted == phase = "stopped" /\ task # <<>> /\ firstErr # "nil"

\* C32: a task whose BuildOrOpenSpecIndex failed holds no open index, and
\* once BuildShardedIndices has returned an error and the startup has
\* ended, no shard is open, those of the tasks that succeeded included.
C32_NoHandleLeftOpen ==
    /\ \A h \in DOMAIN task :
            task[h].pc \in {"fail", "failed"} => h \notin OpenHandles
    /\ StartupAborted => OpenHandles = {}

\* C32, first half only: the index a failed BuildOrOpenSpecIndex created
\* has been closed
C32_FailedTaskClosed ==
    \A h \in DOMAIN task :
        task[h].pc \in {"fail", "failed"} => h \notin OpenHandles

----------------------------------------------------------------------------
(* The body of a log (SpecParse)                                           *)

\* C33: while ParseLog is in state Body, a line that is neither blank nor
\* begins with Response is appended, trimmed, to the body lines and the
\* state stays Body, whatever the line holds (a line that begins with one
\* of the four keywords included); Method, URI and Headers keep their
\* values.
C33_BodyTakesEveryLine ==
    [][(/\ pl.err = "running"
        /\ pl'.pos = pl.pos + 1
        /\ pl.state = "Body"
        /\ CurrentLine # <<>>
        /\ ~HasPrefix(CurrentLine, KwResponse))
            => /\ pl'.bodyLines = Append(pl.bodyLines, CurrentLine)
               /\ pl'.state = "Body"
               /\ pl'.Method = pl.Method
               /\ pl'.URI = pl.URI
               /\ pl'.Headers = pl.Headers]_vars

----------------------------------------------------------------------------
(* Termination of ParseLog (SpecParseLive)                                 *)

\* The loop of ParseLog is sequential code over a reader of finite input:
\* an iteration that can run does run
SpecParseLive == SpecParse /\ WF_vars(NextParse)

\* The fields of the parser the switch works on
Interpreted(p) ==
    <<p.state, p.Method, p.URI, p.Headers, p.Params, p.bodyLines>>

\* C34, in the steps of the loop: an iteration that does not fail takes the
\* line at the position, interprets it and moves on by one line; the result
\* is produced in the iteration of the last line, after that line was
\* interpreted; a read error leaves everything but the error as it was.
C34_Step ==
    pl.err = "running" =>
        \/ /\ pl'.err = "read error"
           /\ pl' = [pl EXCEPT !.err = "read error"]
        \/ /\ pl'.err # "read error"
           /\ pl'.pos = pl.pos + 1
           /\ Interpreted(pl') = Interpreted(ParseLine(pl, pl.log[pl.pos]))
           /\ pl'.err = "running" <=> pl.pos < Len(pl.log)
           /\ pl'.err # "running" => pl'.Body = Join1(pl'.bodyLines, "\n")

\* C34: ParseLog returns on every finite input; every line is interpreted
\* exactly once and in order, the line read together with the end of the
\* stream included, before the result is produced; a read error other than
\* the end of the stream ends the call with that error.
C34_ConsumesEveryLine ==
    /\ <>ParseReturned
    /\ [][C34_Step]_vars
    /\ [](ParseReturned =>
            \/ pl.err = "read error"
            \/ pl.pos = Len(pl.log) + 1)

\* ParseLog has returned a request whose body ends with the text of a last
\* line that no newline ends
C34_Witness ==
    /\ pl.err = "nil"
    /\ pl.shape # NoShape
    /\ ~pl.shape.newline
    /\ pl.shape.body # <<>>
    /\ ~(pl.shape.inlineBody /\ Len(pl.shape.body) = 1)
    /\ pl.pos = Len(pl.log) + 1
    /\ pl.bodyLines # <<>>
    /\ pl.bodyLines[Len(pl.bodyLines)] = TrimSpace(pl.log[Len(pl.log)])

----------------------------------------------------------------------------
(* The Registry after publication (SpecPublished)                          *)

\* Logs the handlers are given: one that resolves, one for a host that has
\* no spec, and one that does not parse
PublishedLogs ==
    { << KwMethod \o <<" ", "G", "E", "T">>, KwURI \o <<" ", "s", ":", "/",
        "/", "x", "/", "p", "/", "k", "/", "7", "?", "v">> >>,
      << KwMethod \o <<" ", "G", "E", "T">>, KwURI \o <<" ", "s", ":", "/",
        "/", "n", "/", "k">> >>,
      << <<>> >> }

\* LoadConfigAndIndex has returned the Registry of the two specs; the cache
\* directory is empty
InitPublished ==
    /\ cfgReadable = TRUE
    /\ files = [f \in FileNames |-> IF f = "f1" THEN FileW1 ELSE FileW2]
    /\ loadRes = LoadConfigAndIndex(cfgReadable, files)
    /\ phase = "loaded"
    /\ hashFile = [n \in SpecNames |-> NoFile]
    /\ shard = [n \in SpecNames |-> NoDir]
    /\ hist = [clean |-> FALSE, rerun |-> FALSE, rebuilt |-> {},
               hashFile |-> hashFile, shard |-> shard]
    /\ task = <<>>
    /\ alias = <<>>
    /\ firstErr = "nil"
    /\ req = NoRequest
    /\ res = Unresolved("not run")
    /\ budget = [edits |-> 0, failures |-> 0]
    /\ ctx = FALSE
    /\ pl = NoParse
    /\ web = NoExchange
    /\ mu = NoHolder
    /\ call = NoCall

\* Everything that runs once the Registry is published: the build of the
\* shards, and the handlers of the server
NextPublished ==
    \/ Spawn
    \/ \E h \in Hosts : Decide(h)
    \/ \E h \in Hosts : RemoveAll(h)
    \/ \E h \in Hosts : Create(h)
    \/ \E h \in Hosts : CreateFails(h)
    \/ \E h \in Hosts : Index(h)
    \/ \E h \in Hosts : IndexFails(h)
    \/ \E h \in Hosts : WriteHash(h)
    \/ \E h \in Hosts : WriteHashFails(h)
    \/ \E h \in Hosts : AliasAdd(h)
    \/ \E h \in Hosts : RecordError(h)
    \/ Join
    \/ \E body \in PublishedLogs : RaSearchHandler(TRUE, body)
    \/ \E body \in PublishedLogs, delivered \in BOOLEAN :
            ActionHandler(TRUE, body, delivered)
    \/ \E q \in {<<"k">>, <<"/">>} : SearchHandler(q, {}, {}, <<>>, <<>>)
    \/ Resolve(GET, <<"s", ":", "/", "/", "y", "/", "7">>)

SpecPublished == InitPublished /\ [][NextPublished]_vars

\* C35: once LoadConfigAndIndex has returned the Registry, no step of the
\* build (BuildShardedIndices, BuildOrOpenSpecIndex) and no handler
\* (FindOperation, SearchBleve, the HTTP handlers) changes the map from
\* hosts to SpecIndex or a field of a SpecIndex.
C35_RegistryReadOnly ==
    [][loadRes.err = "nil" => loadRes' = loadRes]_vars

\* The shards were built from the Registry and a handler has resolved a
\* request with it
C35_Witness ==
    /\ phase = "serving"
    /\ hist.rebuilt = SpecNames
    /\ web # NoExchange
    /\ web.handler = "raSearch"
    /\ res.err = "nil"
    /\ loadRes = LoadConfigAndIndex(cfgReadable, files)

----------------------------------------------------------------------------
(* Spec Sanitizer: sanitizePaths, sanitizeComponents, injectMissingSchemas *)

\* A decoded JSON value (interface{}): an object is a map from keys to
\* values, an array a sequence of values, a string its characters
JObj(m) == [obj |-> m]
JArr(a) == [arr |-> a]
JStr(s) == [str |-> s]

IsObj(x) == "obj" \in DOMAIN x
IsArr(x) == "arr" \in DOMAIN x
IsStr(x) == "str" \in DOMAIN x

\* m[k] = v and delete(m, k) on a map[string]interface{}
MapSet(m, k, v) == [x \in DOMAIN m \cup {k} |-> IF x = k THEN v ELSE m[x]]
MapDelete(m, k) == [x \in DOMAIN m \ {k} |-> m[x]]

\* m[k].(map[string]interface{}) with the ok result dropped: the map under
\* k, or the nil map when k is absent or holds something else
AsMap(m, k) ==
    IF k \in DOMAIN m /\ IsObj(m[k]) THEN [isNil |-> FALSE, m |-> m[k].obj]
    ELSE [isNil |-> TRUE, m |-> <<>>]

validVerbs ==
    {<<"g", "e", "t">>, <<"p", "u", "t">>, <<"p", "o", "s", "t">>, <<"d",
       "e", "l", "e", "t", "e">>, <<"o", "p", "t", "i", "o", "n", "s">>,
       <<"h", "e", "a", "d">>,
     <<"p", "a", "t", "c", "h">>, <<"t", "r", "a", "c", "e">>, <<"c", "o",
       "n", "n", "e", "c", "t">>}

KeyParameters == <<"p", "a", "r", "a", "m", "e", "t", "e", "r", "s">>
KeyPaths == <<"p", "a", "t", "h", "s">>
KeyComponents == <<"c", "o", "m", "p", "o", "n", "e", "n", "t", "s">>
KeySchemas == <<"s", "c", "h", "e", "m", "a", "s">>
KeyRef == <<"$", "r", "e", "f">>
KeyType == <<"t", "y", "p", "e">>
RefPrefix == <<"#", "/", "c", "o", "m", "p", "o", "n", "e", "n", "t", "s",
               "/", "s", "c", "h", "e", "m", "a", "s", "/">>

\* The body of the loop of sanitizePaths over the keys of a path item
VisitVerb(m, k) ==
    IF ToLower(k) \in validVerbs
    THEN IF ToLower(k) # k THEN MapDelete(MapSet(m, ToLower(k), m[k]), k)
         ELSE m
    ELSE IF k = KeyParameters THEN m
    ELSE MapDelete(m, k)

\* for k := range m, in one of the orders the runtime can take; every key
\* the loop reaches is still in the map (an iteration deletes only its own
\* key), and reaching a key the loop created changes nothing
RECURSIVE VisitVerbs(_, _)
VisitVerbs(m, order) ==
    IF order = <<>> THEN m
    ELSE VisitVerbs(VisitVerb(m, Head(order)), Tail(order))

\* sanitizePaths on one path item: a node that is not an object has no keys
\* to range over
SanitizeItem(node) ==
    IF ~IsObj(node) THEN {node}
    ELSE {JObj(VisitVerbs(node.obj, order)) :
                order \in Rankings(DOMAIN node.obj)}

\* sanitizePaths(raw): the documents it can leave, one per order of the keys
sanitizePaths(raw) ==
    IF AsMap(raw, KeyPaths).isNil THEN {raw}
    ELSE \* the path items are changed in place
         {[raw EXCEPT ![KeyPaths] = JObj(items)] :
            items \in {f \in [DOMAIN raw[KeyPaths].obj ->
                               UNION {SanitizeItem(raw[KeyPaths].obj[p]) :
                                        p \in DOMAIN raw[KeyPaths].obj}] :
                        \A p \in DOMAIN f : f[p] \in SanitizeItem(raw[KeyPaths].obj[p])}}

\* strings.ToUpper(string(k[0])) + k[1:]
Title(k) == <<UpperChar(k[1])>> \o Tail(k)

\* The body of the loop of sanitizeComponents
VisitSchema(schemas, k) ==
    IF Title(k) # k THEN MapSet(schemas, Title(k), schemas[k]) ELSE schemas

RECURSIVE VisitSchemas(_, _)
VisitSchemas(schemas, order) ==
    IF order = <<>> THEN schemas
    ELSE VisitSchemas(VisitSchema(schemas, Head(order)), Tail(order))

\* The outcome of a pass: the document it leaves, or a panic
Done(raw) == [panic |-> FALSE, raw |-> raw]
Panic == [panic |-> TRUE, raw |-> <<>>]

\* sanitizeComponents(raw): k[0] of an empty key is out of range
sanitizeComponents(raw) ==
    LET comps   == AsMap(raw, KeyComponents)
        schemas == AsMap(comps.m, KeySchemas)
    IN  IF schemas.isNil THEN {Done(raw)}
        ELSE IF <<>> \in DOMAIN schemas.m THEN {Panic}
        ELSE {Done([raw EXCEPT ![KeyComponents] =
                        JObj([comps.m EXCEPT ![KeySchemas] =
                                JObj(VisitSchemas(schemas.m, order))])]) :
                order \in Rankings(DOMAIN schemas.m)}

\* walk: the names of the references collected; the value under a $ref key
\* is looked at when it is a string and never walked
RECURSIVE walk(_)
walk(node) ==
    IF IsObj(node)
    THEN UNION {IF k = KeyRef
                THEN IF IsStr(node.obj[k]) /\ HasPrefix(node.obj[k].str,
                    RefPrefix)
                     THEN {TrimPrefix(node.obj[k].str, RefPrefix)} ELSE {}
                ELSE walk(node.obj[k]) : k \in DOMAIN node.obj}
    ELSE IF IsArr(node)
    THEN UNION {walk(node.arr[i]) : i \in DOMAIN node.arr}
    ELSE {}

Stub == JObj([k \in {KeyType} |-> JStr(<<"o", "b", "j", "e", "c", "t">>)])

\* injectMissingSchemas(raw)
injectMissingSchemas(raw) ==
    LET refs    == walk(JObj(raw))
        comps   == AsMap(raw, KeyComponents).m
        schemas == AsMap(comps, KeySchemas).m
        filled  == [n \in DOMAIN schemas \cup refs |->
                        IF n \in DOMAIN schemas THEN schemas[n] ELSE Stub]
    IN  MapSet(raw, KeyComponents, JObj(MapSet(comps, KeySchemas,
        JObj(filled))))

----------------------------------------------------------------------------
(* The sanitizer on the documents of a catalogue (SpecSanitize)            *)

Obj1(k, v) == [x \in {k} |-> v]

RefTo(name) == JObj(Obj1(KeyRef, JStr(RefPrefix \o name)))

\* The keys a path item of the catalogue can hold, and what each holds: an
\* operation with a reference below it, one whose $ref holds an object
\* with a reference in it, one with a reference to another place, a
\* parameters array with a reference, and a string
ItemKeys == {<<"g", "e", "t">>, <<"G", "E", "T">>, <<"G", "e", "t">>,
               KeyParameters, <<"x">>}

ItemValue(k) ==
    CASE k = <<"g", "e", "t">> -> JObj(Obj1(<<"s">>, RefTo(<<"P", "e",
               "t">>)))
      [] k = <<"G", "E", "T">> -> JObj(Obj1(KeyRef, RefTo(<<"T", "o", "g">>)))
      [] k = <<"G", "e", "t">> -> JObj(Obj1(KeyRef, JStr(<<"#", "/", "d">>)))
      [] k = KeyParameters -> JArr(<<RefTo(<<"S", "e", "t">>)>>)
      [] OTHER -> JStr(<<"v">>)

\* The keys components.schemas of the catalogue can hold, the empty key
\* among them, and the schema each holds
SchemaKeys == {<<"p", "e", "t">>, <<"P", "e", "t">>, <<"S", "e", "t">>, <<>>}

SchemaValue(k) ==
    CASE k = <<"p", "e", "t">> -> JObj(Obj1(KeyType, JStr(<<"s", "t", "r",
               "i", "n", "g">>)))
      [] k = <<"P", "e", "t">> -> JObj(Obj1(KeyType, JStr(<<"a", "r", "r",
               "a", "y">>)))
      [] OTHER -> JObj(<<>>)

\* What the document holds under paths: nothing, a string, or one path
\* whose item is a string or an object
PathsChoices ==
    {<<>>, Obj1(KeyPaths, JStr(<<"v">>)),
     Obj1(KeyPaths, JObj(Obj1(<<"/", "k">>, JStr(<<"v">>))))}
        \cup {Obj1(KeyPaths, JObj(Obj1(<<"/", "k">>,
                                         JObj([k \in K |-> ItemValue(k)])))) :
                K \in SUBSET ItemKeys}

\* What the document holds under components: nothing, a string, an object
\* without schemas, or schemas that are an array or an object
ComponentsChoices ==
    {<<>>, Obj1(KeyComponents, JStr(<<"v">>)),
     Obj1(KeyComponents, JObj(<<>>)),
     Obj1(KeyComponents, JObj(Obj1(KeySchemas, JArr(<<>>))))}
        \cup {Obj1(KeyComponents,
                   JObj(Obj1(KeySchemas,
                       JObj([k \in K |-> SchemaValue(k)])))) :
                K \in SUBSET SchemaKeys}

\* The decoded documents: json.Unmarshal gave a map[string]interface{}
Documents ==
    {[k \in DOMAIN p \cup DOMAIN c |-> IF k \in DOMAIN p THEN p[k] ELSE c[k]] :
        p \in PathsChoices, c \in ComponentsChoices}

\* indexSpecOnDisk has decoded the document raw
Decoded(raw) ==
    [fn |-> "sanitize", stage |-> "decoded", panic |-> FALSE,
     before |-> raw, raw |-> raw]

InitSanitize ==
    /\ cfgReadable = TRUE
    /\ files = [f \in FileNames |-> IF f = "f1" THEN FileA1 ELSE FileB1]
    /\ hashFile = [n \in SpecNames |-> NoFile]
    /\ shard = [n \in SpecNames |-> NoDir]
    /\ phase = "stopped"
    /\ loadRes = NoLoad
    /\ task = <<>>
    /\ alias = <<>>
    /\ firstErr = "nil"
    /\ req = NoRequest
    /\ res = Unresolved("not run")
    /\ hist = NoHist
    /\ budget = [edits |-> 0, failures |-> 0]
    /\ ctx = FALSE
    /\ pl = NoParse
    /\ web = NoExchange
    /\ mu = NoHolder
    /\ call \in {Decoded(raw) : raw \in Documents}

\* sanitizePaths(raw)
SanitizePaths ==
    /\ call.fn = "sanitize" /\ call.stage = "decoded"
    /\ \E out \in sanitizePaths(call.raw) :
            call' = [call EXCEPT !.stage = "paths", !.before = call.raw,
                                 !.raw = out]
    /\ UNCHANGED <<cfgReadable, files, hashFile, shard, phase, loadRes, task,
                   alias, firstErr, req, res, hist, budget, ctx, pl, web, mu>>

\* sanitizeComponents(raw)
SanitizeComponents ==
    /\ call.fn = "sanitize" /\ call.stage = "paths"
    /\ \E out \in sanitizeComponents(call.raw) :
            call' = IF out.panic
                    THEN [call EXCEPT !.stage = "components", !.panic = TRUE,
                                      !.before = call.raw]
                    ELSE [call EXCEPT !.stage = "components",
                                      !.before = call.raw, !.raw = out.raw]
    /\ UNCHANGED <<cfgReadable, files, hashFile, shard, phase, loadRes, task,
                   alias, firstErr, req, res, hist, budget, ctx, pl, web, mu>>

\* injectMissingSchemas(raw)
InjectMissingSchemas ==
    /\ call.fn = "sanitize" /\ call.stage = "components" /\ ~call.panic
    /\ call' = [call EXCEPT !.stage = "schemas", !.before = call.raw,
                            !.raw = injectMissingSchemas(call.raw)]
    /\ UNCHANGED <<cfgReadable, files, hashFile, shard, phase, loadRes, task,
                   alias, firstErr, req, res, hist, budget, ctx, pl, web, mu>>

NextSanitize == SanitizePaths \/ SanitizeComponents \/ InjectMissingSchemas

SpecSanitize == InitSanitize /\ [][NextSanitize]_vars

----------------------------------------------------------------------------
(* Properties of the sanitizer (SpecSanitize)                              *)

\* The pass named by stage has just run, without a panic
After(stage) == call.fn = "sanitize" /\ call.stage = stage /\ ~call.panic

PathItems(raw) == AsMap(raw, KeyPaths).m
Schemas(raw) == AsMap(AsMap(raw, KeyComponents).m, KeySchemas)

\* C36: after sanitizePaths every key of every path item is a lower-case
\* canonical verb or 'parameters'; for every key of the input that
\* lowercases to a canonical verb, the output holds under the lower-case
\* verb the value that key held; the value under 'parameters' is kept; and
\* the input determines the result, also with 'GET' next to 'get'.
C36_VerbsLowered ==
    After("paths") =>
        /\ \A p \in DOMAIN PathItems(call.raw) :
              LET in  == PathItems(call.before)[p]
                  out == PathItems(call.raw)[p]
              IN  IsObj(out) =>
                    /\ DOMAIN out.obj \subseteq validVerbs \cup {KeyParameters}
                    /\ \A k \in DOMAIN in.obj :
                          ToLower(k) \in validVerbs =>
                            /\ ToLower(k) \in DOMAIN out.obj
                            /\ out.obj[ToLower(k)] = in.obj[k]
                    /\ KeyParameters \in DOMAIN in.obj =>
                            /\ KeyParameters \in DOMAIN out.obj
                            /\ out.obj[KeyParameters] = in.obj[KeyParameters]
        /\ sanitizePaths(call.before) = {call.raw}

\* C37: after sanitizeComponents every key of components.schemas begins
\* with an upper-case character; the title-cased form of each key of the
\* input holds that key's value, unless the input had the title-cased key
\* already, whose value is then kept; no lower-case key is left.
C37_SchemaKeysTitled ==
    (After("components") /\ ~Schemas(call.before).isNil) =>
        LET in  == Schemas(call.before).m
            out == Schemas(call.raw).m
        IN  /\ \A k \in DOMAIN out : k # <<>> /\ Title(k) = k
            /\ \A k \in DOMAIN in :
                  /\ Title(k) \in DOMAIN out
                  /\ out[Title(k)] = IF Title(k) \in DOMAIN in
                                     THEN in[Title(k)] ELSE in[k]

\* C38: the three passes of the sanitizer run to completion on every
\* decoded JSON object: none of them fails or crashes.
C38_SanitizerNeverFails ==
    call.fn = "sanitize" => ~call.panic

\* Every $ref string of the document that names a schema, wherever it
\* stands
RECURSIVE AllRefs(_)
AllRefs(node) ==
    IF IsObj(node)
    THEN UNION {(IF k = KeyRef /\ IsStr(node.obj[k])
                        /\ HasPrefix(node.obj[k].str, RefPrefix)
                 THEN {TrimPrefix(node.obj[k].str, RefPrefix)} ELSE {})
                    \cup AllRefs(node.obj[k]) : k \in DOMAIN node.obj}
    ELSE IF IsArr(node)
    THEN UNION {AllRefs(node.arr[i]) : i \in DOMAIN node.arr}
    ELSE {}

\* C39: after injectMissingSchemas, components and components.schemas
\* exist; every $ref string anywhere in the document that starts with
\* '#/components/schemas/' names a key of components.schemas; the names
\* that were present keep their value and each name that was missing holds
\* the stub {type: "object"}.
C39_RefsResolve ==
    After("schemas") =>
        /\ ~AsMap(call.raw, KeyComponents).isNil
        /\ ~Schemas(call.raw).isNil
        /\ AllRefs(JObj(call.raw)) \subseteq DOMAIN Schemas(call.raw).m
        /\ \A n \in DOMAIN Schemas(call.raw).m :
              Schemas(call.raw).m[n] =
                    IF n \in DOMAIN Schemas(call.before).m
                    THEN Schemas(call.before).m[n] ELSE Stub

\* C39 for the references walk collects: those that do not stand below a
\* $ref key
C39_CollectedRefsResolve ==
    After("schemas") =>
        /\ ~AsMap(call.raw, KeyComponents).isNil
        /\ ~Schemas(call.raw).isNil
        /\ walk(JObj(call.raw)) \subseteq DOMAIN Schemas(call.raw).m
        /\ \A n \in DOMAIN Schemas(call.raw).m :
              Schemas(call.raw).m[n] =
                    IF n \in DOMAIN Schemas(call.before).m
                    THEN Schemas(call.before).m[n] ELSE Stub

----------------------------------------------------------------------------
(* The loader's hash-cache file (SpecCache)                                *)

\* The file at cachePath: whether it exists, can be opened for reading,
\* can be created or truncated, and holds a gob-encoded map of hashes
CacheFile(exists, readable, writable, decodes, hashes) ==
    [exists |-> exists, readable |-> readable, writable |-> writable,
     decodes |-> decodes, hashes |-> hashes]

\* updated: the hash of every spec of the configuration
UpdatedHashes(fs) ==
    [n \in {Cfgs[i].Name : i \in DOMAIN Cfgs} |->
        computeSHA(fs[Cfgs[CHOOSE i \in DOMAIN Cfgs : Cfgs[i].Name = n].File])]

\* The states the file can be in before a startup: absent (in a directory
\* that can or cannot be written), corrupt, unreadable, and valid with the
\* hashes of some earlier contents, each writable or not
CacheFiles ==
    {CacheFile(FALSE, FALSE, w, FALSE, <<>>) : w \in BOOLEAN}
        \cup {CacheFile(TRUE, TRUE, w, FALSE, <<>>) : w \in BOOLEAN}
        \cup {CacheFile(TRUE, FALSE, w, TRUE, <<>>) : w \in BOOLEAN}
        \cup {CacheFile(TRUE, TRUE, w, TRUE,
                        UpdatedHashes([f \in FileNames |-> c])) :
                w \in BOOLEAN, c \in {FileA1, FileB1}}

\* LoadCached that reports a cache file it cannot read or decode
LoadCached_Strict(readable, fs, cache) ==
    IF ~readable
    THEN [res |-> LoadError("reading config"), cache |-> cache]
    ELSE IF cache.exists /\ ~(cache.readable /\ cache.decodes)
    THEN [res |-> LoadError("reading cache"), cache |-> cache]
    ELSE [res |-> loadFrom(fs, 1, <<>>), cache |-> cache]

\* LoadConfigAndIndex with the cache file: old is decoded from the file
\* when it opens (errors dropped) and is not read again; the file is
\* written when every spec was loaded and os.Create succeeds
LoadCached(readable, fs, cache) ==
    IF ~readable
    THEN [res |-> LoadError("reading config"), cache |-> cache]
    ELSE LET old == IF cache.exists /\ cache.readable /\ cache.decodes
                    THEN cache.hashes ELSE <<>>
             loaded == loadFrom(fs, 1, <<>>)
         IN  [res |-> loaded,
              cache |-> IF loaded.err = "nil" /\ cache.writable
                        THEN CacheFile(TRUE, ~cache.exists \/ cache.readable,
                                       TRUE, TRUE, UpdatedHashes(fs))
                        ELSE cache]

InitCache ==
    /\ cfgReadable \in BOOLEAN
    /\ files \in [FileNames -> Contents]
    /\ hashFile = [n \in SpecNames |-> NoFile]
    /\ shard = [n \in SpecNames |-> NoDir]
    /\ phase = "stopped"
    /\ loadRes = NoLoad
    /\ task = <<>>
    /\ alias = <<>>
    /\ firstErr = "nil"
    /\ req = NoRequest
    /\ res = Unresolved("not run")
    /\ hist = NoHist
    /\ budget = [edits |-> 0, failures |-> 0]
    /\ ctx = FALSE
    /\ pl = NoParse
    /\ web = NoExchange
    /\ mu = NoHolder
    /\ call \in {[fn |-> "load", used |-> c, cache |-> c] : c \in CacheFiles}

\* run calls LoadConfigAndIndex(ctx, specFile, cachePath)
LoadWithCache ==
    /\ phase = "stopped"
    /\ call.fn = "load"
    /\ phase' = "loaded"
    /\ \E out \in {LoadCached(cfgReadable, files, call.cache)} :
            /\ loadRes' = out.res
            /\ call' = [call EXCEPT !.used = call.cache, !.cache = out.cache]
    /\ task' = <<>>
    /\ alias' = <<>>
    /\ firstErr' = "nil"
    /\ hist' = [clean |-> FALSE, rerun |-> hist.clean, rebuilt |-> {},
                hashFile |-> hashFile, shard |-> shard]
    /\ ctx' \in BOOLEAN
    /\ UNCHANGED <<cfgReadable, files, hashFile, shard, req, res, budget,
                   pl, web, mu>>

\* The process ends after the load and is started again
Restart ==
    /\ phase = "loaded"
    /\ call.fn = "load"
    /\ loadRes.err = "nil"
    /\ phase' = "stopped"
    /\ ctx' = FALSE
    /\ UNCHANGED <<cfgReadable, files, hashFile, shard, loadRes, task, alias,
                   firstErr, req, res, hist, budget, pl, web, mu, call>>

NextCache == LoadWithCache \/ LoadFailed \/ Restart

SpecCache == InitCache /\ [][NextCache]_vars

\* C40: the outcome of LoadConfigAndIndex does not depend on the cache
\* file: whatever state the file is in (absent, corrupt, unreadable,
\* unwritable, valid), the loader returns the Registry or the error it
\* returns without any cache file, and no error is about the cache file.
C40_CacheIrrelevant ==
    (call.fn = "load" /\ phase = "loaded") =>
        /\ loadRes = LoadConfigAndIndex(cfgReadable, files)
        /\ \A c \in CacheFiles : LoadCached(cfgReadable, files,
            c).res = loadRes

\* A Registry of two specs was returned although the cache file was there
\* and could not be decoded, and the file could not be written
C40_Witness ==
    /\ call.fn = "load"
    /\ phase = "loaded"
    /\ loadRes.err = "nil"
    /\ Cardinality(DOMAIN Registry) = 2
    /\ call.used.exists /\ call.used.readable /\ ~call.used.decodes
    /\ ~call.used.writable
    /\ call.cache = call.used

====
